---------------------------- MODULE Spec2Model ----------------------------
(***************************************************************************)
(* Model of TriggerService (src/src/engine/strategies.ts, lines 1406-1935) *)
(* of vscode-antigravity-cockpit: the quota-reset edge detector with its   *)
(* persisted watermarks, the trigger history with its retention rule, and  *)
(* the trigger() fan-out over a fixed-size worker pool; and of             *)
(* CloudCodeClient (src/src/shared/cloudcode_client.ts): the three request *)
(* operations, their error classes and their retry loops, the stream       *)
(* reader, the backoff delay, the base URL routing (src/unnamed/part_000), *)
(* resolveProjectId with its onboarding poll; of the local credential      *)
(* importer (src/unnamed/part_002): readVarint, skipField, findField,      *)
(* previewLocalCredential and commitLocalCredential; of the credential     *)
(* store they and trigger() use; and of bootSystems (src/src/extension.ts).*)
(*                                                                         *)
(* Wall-clock time is the variable now, in milliseconds, as Date.now().    *)
(* The specifications share the variables:                                 *)
(*   SpecReset    shouldTriggerOnReset / markResetTriggered / initialize   *)
(*   SpecHistory  trigger() on its failing-token path, addRecord,          *)
(*                cleanupRecords, clearHistory, initialize                 *)
(*   SpecTrigger  trigger() in full: token, project id, worker pool        *)
(*   SpecProject  trigger() with every way of getting the project id       *)
(*   SpecClient   requestJson / requestGetJson / requestStream             *)
(*   SpecRoute    requestJson with every route, one round                  *)
(*   SpecStream   requestStream over bodies of data: lines                 *)
(*   SpecBackoff  getBackoffDelay                                          *)
(*   SpecTier     pickOnboardTier                                          *)
(*   SpecOnboard  resolveProjectId / tryOnboardUser                        *)
(*   SpecVarint   readVarint                                               *)
(*   SpecField    findField / skipField                                    *)
(*   SpecStore    the credential store (modelled from its specification)   *)
(*   SpecAccount  trigger() up to its project id, over the store           *)
(*   SpecImport   previewLocalCredential / commitLocalCredential           *)
(*   SpecPending  the same with two commits overlapping and the clock      *)
(*   SpecBoot     bootSystems with its callers (src/src/extension.ts)      *)
(***************************************************************************)
EXTENDS Integers, Sequences, FiniteSets, TLC

(***************************************************************************)
(* Program constants.                                                      *)
(***************************************************************************)
RESET_TRIGGER_COOLDOWN_MS == 600000

\* part_002, line 26: 2 * 60 * 1000
PENDING_CREDENTIAL_TTL_MS == 120000

\* extension.ts, line 41
MAX_AUTO_RETRY == 3

MAX_TRIGGER_CONCURRENCY == 4

maxRecords == 40

DEFAULT_ATTEMPTS == 2

ONBOARD_POLL_DELAY_MS == 500

BACKOFF_BASE_MS == 500

BACKOFF_MAX_MS == 4000

\* Math.random() * 100, taken in whole milliseconds
MaxJitterMs == 100

maxDays == 7

MsPerDay == 86400000

(***************************************************************************)
(* Bounds of the model.                                                    *)
(***************************************************************************)
\* the clock of SpecReset advances in steps of half a cooldown window
ResetTickMs == 300000

MaxResetTicks == 4

\* the clock of SpecHistory advances in steps of half the retention age (3.5 days)
HistTickMs == 302400000

MaxHistTicks == 2

\* trigger(models): at most MaxModels models are requested
MaxModels == 5

\* SpecTrigger starts a trigger() call while the history is shorter than this
MaxTriggerHistory == 1

\* SpecProject names 1 .. MaxProjectModels models in a trigger() call
MaxProjectModels == 3

\* SpecClient passes options.maxAttempts 0 .. MaxAttemptsOption, or none
MaxAttemptsOption == 3

\* SpecBackoff computes the delays of the rounds 2 .. MaxBackoffAttempt
MaxBackoffAttempt == 7

\* SpecStream reads bodies of 0 .. MaxStreamLines lines
MaxStreamLines == 3

\* SpecTier picks from allowedTiers lists of 0 .. MaxTiers tiers
MaxTiers == 3

\* SpecOnboard lets the server answer "not done" to MaxPolls polls at most
MaxPolls == 3

\* SpecVarint reads varints at the offsets 0 .. MaxOffset of a buffer
MaxOffset == 2

\* SpecField scans buffers of 0 .. MaxFields fields, whole or cut short
MaxFields == 2

\* SpecBoot holds up to MaxBootRuns bootSystems runs and timers at a time
MaxBootRuns == 3

\* SpecImport and SpecPending preview up to MaxPreviews credentials
MaxPreviews == 2

\* the clock of SpecPending: MaxImportTicks steps of ImportTickMs
ImportTickMs == 120000

MaxImportTicks == 2

\* quota values observed: 1 and MaxRemaining
MaxRemaining == 2

Models == {"m1", "m2"}

ResetAts == {"R1", "R2"}

Limits == {1, 2}

Remainings == {1, MaxRemaining}

VARIABLES
    now,                         \* Date.now()
    lastResetTriggerTimestamps,  \* Map modelId -> resetAt of the last trigger
    lastResetTriggerAt,          \* Map modelId -> time of the last trigger
    lastResetRemaining,          \* Map modelId -> last observed remaining
    storedResetTimestamps,       \* state slot 'lastResetTriggerTimestamps'
    storedResetAt,               \* state slot 'lastResetTriggerAt'
    pendingMark,                 \* a wake-up issued and not yet recorded
    lastOp,                      \* history: the operation that made this state
    lastMarked,                  \* history: per model, the last wake-up recorded
    woken,                       \* history: per model, the resetAt values woken
    scen,                        \* history: progress of the edge scenario
    recentTriggers,              \* TriggerRecord[], newest first
    storedHistory,               \* state slot 'triggerHistory'
    stage,                       \* where the trigger() call in progress stands
    triggerModels,               \* number of models of the call in progress
    nextIndex,                   \* the shared index of the worker pool
    workers,                     \* the workers: awaiting a request, or returned
    results,                     \* results[currentIndex], a map of the filled slots
    requestsSent,                \* history: requests sent per index of the call
    outcomesRecorded,            \* history: writes of results[i] per index
    tokenResult,                 \* const tokenResult of the call (line 1611)
    projectId,                   \* const projectId of the call (line 1620)
    operation,                   \* the client operation of the logical call
    pc,                          \* where the logical call stands
    maxAttempts,                 \* const maxAttempts of the retry loop
    inFlight,                    \* HTTP requests started and not yet settled
    baseUrls,                    \* the base URLs of the logical call, in order
    attempt,                     \* let attempt of the retry loop
    urlIndex,                    \* the place in baseUrls of the URL being called
    lastError,                   \* let lastError of the retry loop
    called,                      \* history: the base URL of each HTTP call made
    sleeps,                      \* history: the rounds a backoff sleep was started for
    settled,                     \* how the promise of the logical call settled
    allRetryable,                \* history: every HTTP call failed, retryably
    resolvePc,                   \* where resolveProjectId stands
    onboardTier,                 \* the tier resolveProjectId onboards with
    resolveCalls,                \* history: the calls resolveProjectId made
    pollSleeps,                  \* history: the delays slept before the polls
    resolved,                    \* what resolveProjectId returned or threw
    storage,                     \* credentialStorage: accounts, flags, active account
    projectCall,                 \* trigger() from its access token to its project id
    pendingLocalCredential,      \* let pendingLocalCredential (part_002, line 27)
    preview,                     \* the previewLocalCredential call in progress
    commits,                     \* the commitLocalCredential calls in progress
    previews,                    \* history: the number of credentials previewed
    used,                        \* history: the previews whose credential a commit took
    activated,                   \* activate() has called bootSystems
    systemOnline,                \* let systemOnline (extension.ts, line 36)
    autoRetryCount,              \* let autoRetryCount (line 40)
    timers,                      \* setTimeout callbacks of bootSystems not yet run
    scans,                       \* bootSystems runs awaiting hunter.scanEnvironment
    statusBar                    \* what bootSystems last set the status bar to

resetVars == <<lastResetTriggerTimestamps, lastResetTriggerAt, lastResetRemaining,
               storedResetTimestamps, storedResetAt, pendingMark, lastMarked, woken,
               scen>>

histVars == <<recentTriggers, storedHistory>>

callVars == <<stage, triggerModels, nextIndex, workers, results, requestsSent,
              outcomesRecorded, tokenResult, projectId>>

onboardVars == <<resolvePc, onboardTier, resolveCalls, pollSleeps, resolved>>

clientVars == <<operation, pc, maxAttempts, inFlight, baseUrls, attempt, urlIndex, lastError,
                called, sleeps, settled, allRetryable, onboardVars>>

importVars == <<pendingLocalCredential, preview, commits, previews, used>>

bootVars == <<activated, systemOnline, autoRetryCount, timers, scans, statusBar>>

hostVars == <<storage, projectCall, importVars, bootVars>>

vars == <<now, resetVars, lastOp, histVars, callVars, clientVars, hostVars>>

(***************************************************************************)
(* Map<K, V> as a function whose domain is the set of keys present.        *)
(***************************************************************************)
EmptyMap == [k \in {} |-> 0]

MapSet(map, key, value) ==
    [k \in (DOMAIN map) \cup {key} |-> IF k = key THEN value ELSE map[k]]

NoOp == [op |-> "init"]

NoMark == [model |-> "none", resetAt |-> "none"]

NoScen == [stage |-> 0, resetAt |-> "none", limit |-> 0]

(***************************************************************************)
(* shouldTriggerOnReset, lines 1493-1544.                                  *)
(***************************************************************************)
\* variant: the cooldown test left out
CooldownNeverActive(modelId) == FALSE

\* line 1507-1508: lastTriggerAt !== undefined && Date.now() - lastTriggerAt < COOLDOWN
CooldownActive(modelId) ==
    /\ modelId \in DOMAIN lastResetTriggerAt
    /\ now - lastResetTriggerAt[modelId] < RESET_TRIGGER_COOLDOWN_MS

\* variant: the resetAt watermark is not compared
SameResetAtIgnored(modelId, resetAt) == FALSE

\* resetAt === lastTriggeredResetAt (lines 1516, 1535); undefined equals no string
SameResetAt(modelId, resetAt) ==
    /\ modelId \in DOMAIN lastResetTriggerTimestamps
    /\ lastResetTriggerTimestamps[modelId] = resetAt

\* variant: no rising-edge test (lines 1526-1532 left out)
ShouldTriggerResultNoEdge(modelId, resetAt, remaining, limit) ==
    IF remaining < limit THEN FALSE
    ELSE IF CooldownActive(modelId) THEN FALSE
    ELSE ~SameResetAt(modelId, resetAt)

\* the value returned
ShouldTriggerResult(modelId, resetAt, remaining, limit) ==
    LET isFull == remaining >= limit
    IN  IF ~isFull THEN FALSE
        ELSE IF CooldownActive(modelId) THEN FALSE
        ELSE IF modelId \notin DOMAIN lastResetRemaining
             THEN ~SameResetAt(modelId, resetAt)
        ELSE LET wasBelowLimit == lastResetRemaining[modelId] < limit
                 isRisingEdge == wasBelowLimit /\ isFull
             IN  IF ~isRisingEdge THEN FALSE
                 ELSE ~SameResetAt(modelId, resetAt)

\* variant: the cooldown exit (line 1509) does not store remaining
RemainingAfterCallCooldownSkips(modelId, resetAt, remaining, limit) ==
    IF remaining >= limit /\ CooldownActive(modelId)
    THEN lastResetRemaining
    ELSE MapSet(lastResetRemaining, modelId, remaining)

\* the value left in lastResetRemaining: each of the six exits (lines 1499, 1509,
\* 1517, 1521, 1529, 1536, 1541) sets it to remaining
RemainingAfterCall(modelId, resetAt, remaining, limit) ==
    MapSet(lastResetRemaining, modelId, remaining)

(***************************************************************************)
(* History of the edge scenario of one model with one limit:               *)
(*   stage 1  a below-limit observation at resetAt R answered false        *)
(*   stage 2  then a full observation at R answered true (and marked)      *)
(*   stage 3  then a full observation at R answered false                  *)
(* The call that follows stage 3 with a full observation at another        *)
(* resetAt is the scenario's fourth call (lastOp.fourth).                  *)
(***************************************************************************)
ScenNext(s, resetAt, remaining, limit, result) ==
    IF s.stage = 2 /\ resetAt = s.resetAt /\ limit = s.limit /\ remaining >= limit /\ ~result
        THEN [s EXCEPT !.stage = 3]
    ELSE IF s.stage = 1 /\ resetAt = s.resetAt /\ limit = s.limit /\ remaining >= limit /\ result
        THEN [s EXCEPT !.stage = 2]
    ELSE IF remaining < limit /\ ~result
        THEN [stage |-> 1, resetAt |-> resetAt, limit |-> limit]
    ELSE NoScen

IsFourthCall(s, resetAt, remaining, limit) ==
    s.stage = 3 /\ resetAt # s.resetAt /\ limit = s.limit /\ remaining >= limit

\* variant: a true answer stores resetAt as the watermark at once
shouldTriggerOnResetMarking(modelId, resetAt, remaining, limit) ==
    LET result == ShouldTriggerResult(modelId, resetAt, remaining, limit)
    IN  /\ pendingMark = NoMark
        /\ lastResetRemaining' = RemainingAfterCall(modelId, resetAt, remaining, limit)
        /\ pendingMark' = IF result THEN [model |-> modelId, resetAt |-> resetAt]
                          ELSE NoMark
        /\ woken' = IF result THEN [woken EXCEPT ![modelId] = @ \cup {resetAt}]
                    ELSE woken
        /\ lastOp' = [op |-> "should", model |-> modelId, resetAt |-> resetAt,
                      remaining |-> remaining, limit |-> limit, result |-> result,
                      hadRemaining |-> modelId \in DOMAIN lastResetRemaining,
                      prevRemaining |-> IF modelId \in DOMAIN lastResetRemaining
                                        THEN lastResetRemaining[modelId] ELSE 0,
                      watermark |-> IF modelId \in DOMAIN lastResetTriggerTimestamps
                                    THEN lastResetTriggerTimestamps[modelId] ELSE "none",
                      fourth |-> IsFourthCall(scen[modelId], resetAt, remaining, limit),
                      wokenBefore |-> resetAt \in woken[modelId],
                      marked |-> modelId \in DOMAIN lastMarked,
                      sinceMark |-> IF modelId \in DOMAIN lastMarked
                                    THEN now - lastMarked[modelId].at ELSE 0,
                      markedResetAt |-> IF modelId \in DOMAIN lastMarked
                                        THEN lastMarked[modelId].resetAt ELSE "none"]
        /\ scen' = [scen EXCEPT ![modelId] =
                        ScenNext(@, resetAt, remaining, limit, result)]
        /\ lastResetTriggerTimestamps' =
               IF result THEN MapSet(lastResetTriggerTimestamps, modelId, resetAt)
               ELSE lastResetTriggerTimestamps
        /\ UNCHANGED <<now, lastResetTriggerAt, storedResetTimestamps, storedResetAt,
                       lastMarked>>
        /\ UNCHANGED <<histVars, callVars, clientVars, hostVars>>

\* One quota observation of the polling path: the call of shouldTriggerOnReset;
\* a true answer issues a wake-up, which markResetTriggered records next.
shouldTriggerOnReset(modelId, resetAt, remaining, limit) ==
    LET result == ShouldTriggerResult(modelId, resetAt, remaining, limit)
    IN  /\ pendingMark = NoMark
        /\ lastResetRemaining' = RemainingAfterCall(modelId, resetAt, remaining, limit)
        /\ pendingMark' = IF result THEN [model |-> modelId, resetAt |-> resetAt]
                          ELSE NoMark
        /\ woken' = IF result THEN [woken EXCEPT ![modelId] = @ \cup {resetAt}]
                    ELSE woken
        /\ lastOp' = [op |-> "should", model |-> modelId, resetAt |-> resetAt,
                      remaining |-> remaining, limit |-> limit, result |-> result,
                      hadRemaining |-> modelId \in DOMAIN lastResetRemaining,
                      prevRemaining |-> IF modelId \in DOMAIN lastResetRemaining
                                        THEN lastResetRemaining[modelId] ELSE 0,
                      watermark |-> IF modelId \in DOMAIN lastResetTriggerTimestamps
                                    THEN lastResetTriggerTimestamps[modelId] ELSE "none",
                      fourth |-> IsFourthCall(scen[modelId], resetAt, remaining, limit),
                      wokenBefore |-> resetAt \in woken[modelId],
                      marked |-> modelId \in DOMAIN lastMarked,
                      sinceMark |-> IF modelId \in DOMAIN lastMarked
                                    THEN now - lastMarked[modelId].at ELSE 0,
                      markedResetAt |-> IF modelId \in DOMAIN lastMarked
                                        THEN lastMarked[modelId].resetAt ELSE "none"]
        /\ scen' = [scen EXCEPT ![modelId] =
                        ScenNext(@, resetAt, remaining, limit, result)]
        /\ UNCHANGED <<now, lastResetTriggerTimestamps, lastResetTriggerAt,
                       storedResetTimestamps, storedResetAt, lastMarked>>
        /\ UNCHANGED <<histVars, callVars, clientVars, hostVars>>

(***************************************************************************)
(* markResetTriggered, lines 1549-1555, with saveResetTriggerTimestamps    *)
(* (1461-1464) and saveResetTriggerAt (1480-1483).                         *)
(***************************************************************************)
\* variant: the watermark map is not written through
saveResetTriggerTimestampsSkipped(map) == storedResetTimestamps

\* what the state slot holds after saveState(key, Object.fromEntries(map))
saveResetTriggerTimestamps(map) == map

\* variant: the cooldown map is not written through
saveResetTriggerAtSkipped(map) == storedResetAt

saveResetTriggerAt(map) == map

markResetTriggered(modelId, resetAt) ==
    /\ pendingMark = [model |-> modelId, resetAt |-> resetAt]
    /\ lastResetTriggerTimestamps' = MapSet(lastResetTriggerTimestamps, modelId, resetAt)
    /\ storedResetTimestamps' = saveResetTriggerTimestamps(lastResetTriggerTimestamps')
    /\ lastResetTriggerAt' = MapSet(lastResetTriggerAt, modelId, now)
    /\ storedResetAt' = saveResetTriggerAt(lastResetTriggerAt')
    /\ pendingMark' = NoMark
    /\ lastMarked' = MapSet(lastMarked, modelId, [resetAt |-> resetAt, at |-> now])
    /\ lastOp' = [op |-> "mark", model |-> modelId, resetAt |-> resetAt,
                  before |-> <<lastResetTriggerTimestamps, lastResetTriggerAt>>]
    /\ UNCHANGED <<now, lastResetRemaining, woken, scen, histVars, callVars,
                   clientVars, hostVars>>

(***************************************************************************)
(* The trigger history: cleanupRecords (1576-1588), addRecord (1743-1749), *)
(* loadHistory (1560-1564), saveHistory (1569-1571), clearHistory          *)
(* (1734-1738).  A record's timestamp is the ISO string of Date; it is     *)
(* held as <<days since the epoch, milliseconds of the day>>.              *)
(***************************************************************************)
\* new Date().toISOString()
toISOString(ms) == <<ms \div MsPerDay, ms % MsPerDay>>

\* new Date(timestamp).getTime()
getTime(timestamp) == timestamp[1] * MsPerDay + timestamp[2]

\* line 1578
maxAge == maxDays * MsPerDay

\* variant: the age filter left out
cleanupRecordsNoAgeFilter(records) ==
    SubSeq(records, 1, IF Len(records) < maxRecords THEN Len(records) ELSE maxRecords)

cleanupRecords(records) ==
    LET filtered == SelectSeq(records,
                        LAMBDA record : (now - getTime(record.timestamp)) < maxAge)
    IN  SubSeq(filtered, 1,
               IF Len(filtered) < maxRecords THEN Len(filtered) ELSE maxRecords)

\* variant: push instead of unshift
addRecordAtEnd(record) == cleanupRecords(Append(recentTriggers, record))

\* recentTriggers after addRecord(record): unshift, then cleanupRecords
addRecord(record) == cleanupRecords(<<record>> \o recentTriggers)

\* what the state slot holds after saveState(storageKey, recentTriggers)
saveHistory(records) == records

loadHistory == cleanupRecords(storedHistory)

clearHistory ==
    /\ recentTriggers' = <<>>
    /\ storedHistory' = saveHistory(recentTriggers')
    /\ lastOp' = [op |-> "clear"]
    /\ UNCHANGED <<now, resetVars, callVars, clientVars, hostVars>>

(***************************************************************************)
(* A restart: a new TriggerService (lines 1426-1438) and initialize()      *)
(* (1443-1447).  lastResetRemaining has no state slot and starts empty.    *)
(* The restart is taken between two operations of the service.             *)
(***************************************************************************)
\* new Map(Object.entries(saved)); Number(value) of a stored number is that number
loadResetTriggerTimestamps == storedResetTimestamps

loadResetTriggerAt == storedResetAt

initialize ==
    /\ pendingMark = NoMark
    /\ stage = "idle"
    /\ recentTriggers' = loadHistory
    /\ lastResetTriggerTimestamps' = loadResetTriggerTimestamps
    /\ lastResetTriggerAt' = loadResetTriggerAt
    /\ lastResetRemaining' = EmptyMap
    /\ scen' = [m \in Models |-> NoScen]
    /\ lastOp' = [op |-> "restart",
                  before |-> <<lastResetTriggerTimestamps, lastResetTriggerAt,
                               lastResetRemaining>>]
    /\ UNCHANGED <<now, storedResetTimestamps, storedResetAt, pendingMark,
                   lastMarked, woken, storedHistory, callVars, clientVars, hostVars>>

\* the wall clock advances between two polls
Tick(stepMs, maxTicks) ==
    /\ pendingMark = NoMark
    /\ now + stepMs <= stepMs * maxTicks
    /\ now' = now + stepMs
    /\ lastOp' = [op |-> "tick"]
    /\ UNCHANGED <<resetVars, histVars, callVars, clientVars, hostVars>>

(***************************************************************************)
(* trigger(), lines 1595-1715.  One call is in progress at a time; stage   *)
(* is "idle" between calls.  The awaits of the call are the steps:         *)
(*   TriggerStart      entry, up to await getAccessTokenResult()  (1611)   *)
(*   TokenResult       its result; on a usable token up to the await of    *)
(*                     the project id (1619-1620), else the catch block    *)
(*   ProjectIdResult   the project id; the workers are created and each    *)
(*                     runs up to its first await (1631-1661)              *)
(*   RequestDone       one awaited sendTriggerRequest settles; the worker  *)
(*                     stores the outcome and takes the next index         *)
(*   TriggerFinish     Promise.all has resolved: summary, record (1663-)   *)
(* Models are named by their index in triggerModels (0-based as in the     *)
(* code).  Of a record the model keeps timestamp, success, prompt (the     *)
(* number of models named) and message.                                    *)
(***************************************************************************)
TokenStates == {"ok", "expired", "invalid_grant", "refresh_failed", "unauthenticated"}

RequestOutcomes == {"ok", "error", "auth"}

\* credential?.projectId is set, or else what resolveProjectId does: it returns
\* a project id, returns none, or throws
ProjectIdOutcomes == {"cached", "resolved", "no_project_id", "resolve_failed"}

\* tokenResult before the await of line 1611 has settled
NoToken == [state |-> "none", token |-> FALSE]

Min(a, b) == IF a < b THEN a ELSE b

\* const currentIndex = nextIndex++ (line 1633)
TakeIndex(next) == [currentIndex |-> next, nextIndex |-> next + 1]

\* a worker from the top of its loop to its next await or its return (1632-1641)
WorkerAfterTake(currentIndex) ==
    IF currentIndex >= triggerModels
    THEN [state |-> "returned", currentIndex |-> currentIndex]
    ELSE [state |-> "await", currentIndex |-> currentIndex]

Bump(map, key) == MapSet(map, key, IF key \in DOMAIN map THEN map[key] + 1 ELSE 1)

\* Array.from({ length: workerCount }, () => worker()): the workers start one
\* after the other, each running to its first await
RECURSIVE StartWorkers(_, _)
StartWorkers(count, acc) ==
    IF count = 0 THEN acc
    ELSE LET take == TakeIndex(acc.nextIndex)
             worker == WorkerAfterTake(take.currentIndex)
         IN  StartWorkers(count - 1,
                 [nextIndex |-> take.nextIndex,
                  workers |-> Append(acc.workers, worker),
                  sent |-> IF worker.state = "await"
                           THEN Bump(acc.sent, take.currentIndex) ELSE acc.sent])

\* variant: an auth failure is not caught by the worker
WorkerCatchesAllButAuth(outcome) == outcome # "auth"

\* catch (error) of the worker (1648-1656) takes every error
WorkerCatches(outcome) == TRUE

\* the record of lines 1675-1683 and 1701-1709
TriggerRecord(success, message) ==
    [timestamp |-> toISOString(now), success |-> success,
     prompt |-> triggerModels, message |-> message]

\* variant: the catch block returns its record without adding it
RecordsAfterCatchNotAdded(record) == recentTriggers

\* this.addRecord(record) of the catch block (line 1711)
RecordsAfterCatch(record) == addRecord(record)

\* the catch block of trigger() (1695-1714)
CatchBlock(errorMessage) ==
    LET record == TriggerRecord(FALSE, [error |-> errorMessage])
    IN  /\ recentTriggers' = RecordsAfterCatch(record)
        /\ storedHistory' = saveHistory(recentTriggers')
        /\ stage' = "idle"
        /\ lastOp' = [op |-> "trigger", path |-> "catch", record |-> record,
                      before |-> recentTriggers]

TriggerStart(models, maxHistory) ==
    /\ stage = "idle"
    /\ pendingMark = NoMark
    /\ Len(recentTriggers) < maxHistory
    /\ triggerModels' = IF models > 0 THEN models ELSE 1
    /\ stage' = "get_access_token"
    /\ nextIndex' = 0
    /\ workers' = <<>>
    /\ results' = EmptyMap
    /\ requestsSent' = EmptyMap
    /\ outcomesRecorded' = EmptyMap
    /\ tokenResult' = NoToken
    /\ projectId' = "none"
    /\ lastOp' = [op |-> "start", models |-> models]
    /\ UNCHANGED <<now, resetVars, clientVars, hostVars, histVars>>

\* variant: any token string passes, whatever the state
TokenUsableWhateverState(state, hasToken) == hasToken

\* the negation of tokenResult.state !== 'ok' || !tokenResult.token (line 1612)
TokenUsable(state, hasToken) == state = "ok" /\ hasToken

\* lines 1611-1615
TokenResult(state, hasToken) ==
    /\ stage = "get_access_token"
    /\ tokenResult' = [state |-> state, token |-> hasToken]
    /\ IF ~TokenUsable(state, hasToken)
       THEN CatchBlock("No valid access token")
       ELSE /\ stage' = "get_project_id"
            /\ lastOp' = [op |-> "token", state |-> state]
            /\ UNCHANGED histVars
    /\ UNCHANGED <<now, resetVars, clientVars, hostVars, triggerModels, nextIndex, workers, results,
                   requestsSent, outcomesRecorded, projectId>>

\* variant: one worker per model
workerCountPerModel == triggerModels

\* line 1660
workerCount == Min(MAX_TRIGGER_CONCURRENCY, triggerModels)

\* variant: fetchProjectId lets the error of resolveProjectId through
fetchProjectIdLetsThrough(outcome) == FALSE

\* try { ... resolveProjectId ... } catch (error) { warn } (1756-1765)
fetchProjectIdCatches(outcome) == outcome = "resolve_failed"

\* the value of fetchProjectId (1767-1778) when it returns
fetchProjectId(outcome) ==
    IF outcome = "resolved" THEN "resolved" ELSE "placeholder"

\* lines 1619-1661: the cached project id or the one of fetchProjectId; then
\* the worker pool starts
ProjectIdResult(outcome) ==
    /\ stage = "get_project_id"
    /\ IF outcome = "resolve_failed" /\ ~fetchProjectIdCatches(outcome)
       THEN /\ CatchBlock("resolveProjectId failed")
            /\ UNCHANGED <<nextIndex, workers, requestsSent, projectId>>
       ELSE LET started == StartWorkers(workerCount,
                               [nextIndex |-> 0, workers |-> <<>>, sent |-> EmptyMap])
            IN  /\ projectId' = IF outcome = "cached" THEN "cached"
                                 ELSE fetchProjectId(outcome)
                /\ nextIndex' = started.nextIndex
                /\ workers' = started.workers
                /\ requestsSent' = started.sent
                /\ stage' = "send_trigger_request"
                /\ lastOp' = [op |-> "project", outcome |-> outcome]
                /\ UNCHANGED histVars
    /\ UNCHANGED <<now, resetVars, clientVars, hostVars, triggerModels, results, outcomesRecorded,
                   tokenResult>>

\* lines 1641-1657 and 1632-1637
RequestDone(w, outcome) ==
    /\ stage = "send_trigger_request"
    /\ w \in DOMAIN workers
    /\ workers[w].state = "await"
    /\ IF outcome = "ok" \/ WorkerCatches(outcome)
       THEN LET currentIndex == workers[w].currentIndex
                take == TakeIndex(nextIndex)
                worker == WorkerAfterTake(take.currentIndex)
            IN  /\ results' = MapSet(results, currentIndex,
                                  [model |-> currentIndex, ok |-> outcome = "ok",
                                   message |-> IF outcome = "ok" THEN "reply"
                                               ELSE "error message"])
                /\ outcomesRecorded' = Bump(outcomesRecorded, currentIndex)
                /\ nextIndex' = take.nextIndex
                /\ workers' = [workers EXCEPT ![w] = worker]
                /\ requestsSent' = IF worker.state = "await"
                                   THEN Bump(requestsSent, take.currentIndex)
                                   ELSE requestsSent
                /\ stage' = stage
                /\ lastOp' = [op |-> "request", outcome |-> outcome]
                /\ UNCHANGED histVars
       ELSE \* the worker's promise rejects, Promise.all rejects, the catch block runs
            /\ CatchBlock(outcome)
            /\ UNCHANGED <<nextIndex, workers, results, requestsSent, outcomesRecorded>>
    /\ UNCHANGED <<now, resetVars, clientVars, hostVars, triggerModels, tokenResult, projectId>>

\* results.filter(...).map(...) in index order (1663-1668); an unfilled slot of
\* new Array(n) is skipped by filter
RECURSIVE LinesFrom(_, _)
LinesFrom(index, ok) ==
    IF index >= triggerModels THEN <<>>
    ELSE (IF index \in DOMAIN results /\ results[index].ok = ok
          THEN <<results[index]>> ELSE <<>>) \o LinesFrom(index + 1, ok)

\* variant: the lines in the order failures, successes
summaryFailuresFirst(successLines, failureLines) == failureLines \o successLines

\* [...successLines, ...failureLines].join('\n') (line 1669)
summary(successLines, failureLines) == successLines \o failureLines

\* lines 1661-1693
TriggerFinish ==
    /\ stage = "send_trigger_request"
    /\ \A w \in DOMAIN workers : workers[w].state = "returned"
    /\ LET successLines == LinesFrom(0, TRUE)
           failureLines == LinesFrom(0, FALSE)
           hasSuccess == Len(successLines) > 0
           record == TriggerRecord(hasSuccess, summary(successLines, failureLines))
       IN  /\ recentTriggers' = addRecord(record)
           /\ storedHistory' = saveHistory(recentTriggers')
           /\ lastOp' = [op |-> "trigger", path |-> "fanout", record |-> record,
                         before |-> recentTriggers]
    /\ stage' = "idle"
    /\ UNCHANGED <<now, resetVars, clientVars, hostVars, triggerModels, nextIndex, workers, results,
                   requestsSent, outcomesRecorded, tokenResult, projectId>>

(***************************************************************************)
(* CloudCodeClient (src/src/shared/cloudcode_client.ts).  One logical call *)
(* of requestJson, requestGetJson or requestStream is in progress at a     *)
(* time; pc is "idle" before the first call, "http" while the call awaits  *)
(* requestOnce / requestGetOnce / requestStreamOnce, "sleep" while it      *)
(* awaits the backoff sleep, "done" when its promise has settled.          *)
(*                                                                         *)
(* What one HTTP call meets is the input of the step that ends it:         *)
(*   fetch   "response": fetch resolved; "network_error" / "abort": fetch  *)
(*           rejected with a TypeError / with the AbortError of the        *)
(*           timeout                                                       *)
(*   status  response.status                                               *)
(*   text    the body: its kind and the marker it contains                 *)
(*   read    how reading the body ends: "complete", or aborted or broken   *)
(*           before the first chunk or ("_late") after the last one        *)
(* An error is a record of its class, its message and the fields its class *)
(* has: status on both client errors, retryable on CloudCodeRequestError.  *)
(***************************************************************************)
Operations == {"requestJson", "requestGetJson", "requestStream"}

Statuses == {200, 302, 400, 401, 403, 429, 500}

TextKinds == {"json", "garbage", "sse"}

Markers == {"none", "invalid_grant", "INVALID_GRANT"}

\* a body: absent (response.body null), empty, or text of a kind
Texts ==
    {[kind |-> "null", marker |-> "none"], [kind |-> "empty", marker |-> "none"]}
        \cup [kind : TextKinds, marker : Markers]

Reads == {"complete", "abort", "abort_late", "network_error", "network_error_late"}

HttpOutcomes ==
    {[fetch |-> f] : f \in {"network_error", "abort"}}
        \cup [fetch : {"response"}, status : Statuses, text : Texts, read : Reads]

\* new CloudCodeAuthError(message, status) (46-53)
CloudCodeAuthError(message, status) ==
    [class |-> "CloudCodeAuthError", message |-> message, status |-> status]

\* new CloudCodeRequestError(message, status, retryable) (55-64)
CloudCodeRequestError(message, status, retryable) ==
    [class |-> "CloudCodeRequestError", message |-> message, status |-> status,
     retryable |-> retryable]

\* what fetch or the body reader rejects with: a TypeError, or the AbortError
\* of controller.abort()
TransportError(name) == [class |-> name, message |-> name]

Throw(error) == [thrown |-> TRUE, error |-> error]

Return(status, data) == [thrown |-> FALSE, status |-> status, data |-> data]

\* String.prototype.toLowerCase on the marker of a text
toLowerCase(marker) == IF marker = "INVALID_GRANT" THEN "invalid_grant" ELSE marker

\* text.toLowerCase().includes('invalid_grant') (718-720)
isInvalidGrant(text) == toLowerCase(text.marker) = "invalid_grant"

\* response.ok
responseOk(status) == status >= 200 /\ status <= 299

\* variant: every status from 400 up counts as retryable
retryableFrom400(status) == status >= 400

\* const retryable = response.status === 429 || response.status >= 500
\* (426, 541, 607)
retryableStatus(status) == status = 429 \/ status >= 500

\* the error name of a failed read
ReadErrorName(read) ==
    IF read \in {"abort", "abort_late"} THEN "AbortError" ELSE "TypeError"

\* the outer catch of requestOnce and requestGetOnce (559-568, 625-634)
WrapTransportError(error) ==
    IF error.class = "AbortError"
    THEN CloudCodeRequestError("Cloud Code request timeout", 0, TRUE)
    ELSE CloudCodeRequestError("Cloud Code network error", 0, TRUE)

\* the body of the try of requestOnce and requestGetOnce after fetch has
\* resolved and response.text() has been read (532-558, 598-624)
AfterText(outcome) ==
    LET text == outcome.text
        status == outcome.status
    IN  IF status = 401 \/ isInvalidGrant(text)
        THEN Throw(CloudCodeAuthError("Authorization expired", status))
        ELSE IF status = 403
        THEN Throw(CloudCodeRequestError("Cloud Code access forbidden", status, FALSE))
        ELSE IF ~responseOk(status)
        THEN Throw(CloudCodeRequestError("Cloud Code request failed", status,
                                         retryableStatus(status)))
        ELSE IF text.kind \in {"null", "empty"}
        THEN Return(status, "{}")
        ELSE IF text.kind = "json"
        THEN Return(status, "parsed")
        ELSE Throw(CloudCodeRequestError("Cloud Code response parse failed", status,
                                         TRUE))

\* requestOnce (506-572)
requestOnce(outcome) ==
    IF outcome.fetch # "response"
    THEN Throw(WrapTransportError(TransportError(
             IF outcome.fetch = "abort" THEN "AbortError" ELSE "TypeError")))
    ELSE IF outcome.read # "complete"
    THEN Throw(WrapTransportError(TransportError(ReadErrorName(outcome.read))))
    ELSE AfterText(outcome)

\* requestGetOnce (574-638): as requestOnce, with method GET and no body sent
requestGetOnce(outcome) == requestOnce(outcome)

\* a line of the body, trimmed: "<field>:<payload>", the blank line being
\* the one with neither; the payload is taken trimmed too (455-465)
Line(field, payload) == [field |-> field, payload |-> payload]
BlankLine == Line("", "")
DonePayload == "[DONE]"
JsonPayloads == {"{\"n\":1}", "{\"n\":2}"}
Payloads == JsonPayloads \cup {DonePayload, "oops", ""}
StreamLines ==
    {BlankLine, Line("event", "message")} \cup {Line("data", p) : p \in Payloads}

\* the bodies SpecStream reads: up to MaxStreamLines lines, each ended by a
\* newline (what follows the last newline stays in the buffer, 453-454)
LineSeqs == UNION {[1..n -> StreamLines] : n \in 0..MaxStreamLines}
StreamTexts == [kind : {"stream"}, marker : {"none"}, lines : LineSeqs]

\* the lines the body holds: the text kind "sse" is the body of one data
\* line; a JSON or other text has no data line
BodyLines(text) ==
    IF text.kind = "stream" THEN text.lines
    ELSE IF text.kind = "sse" THEN <<Line("data", "{\"n\":1}")>>
    ELSE <<>>

\* the lines read before the read ended: all of them, or none when the read
\* failed at once
LinesRead(outcome) ==
    IF outcome.read \in {"complete", "abort_late", "network_error_late"}
    THEN BodyLines(outcome.text) ELSE <<>>

\* JSON.parse(payload): <<value>>, or <<>> when it throws
JSON_parse(payload) ==
    IF payload = "{\"n\":1}" THEN <<[n |-> 1]>>
    ELSE IF payload = "{\"n\":2}" THEN <<[n |-> 2]>>
    ELSE <<>>

Undefined == [undefined |-> TRUE]

\* let payloads = [], lastData = undefined, gotEvent = false (442-444)
ReaderStart == [gotEvent |-> FALSE, payloads |-> <<>>, lastData |-> Undefined]

\* variant: only a payload that parses counts as an event
ReadLineJsonOnly(reader, line) ==
    IF line = BlankLine \/ line.field # "data" \/ line.payload = DonePayload
    THEN reader
    ELSE LET parsed == JSON_parse(line.payload)
         IN  IF parsed = <<>> THEN reader
             ELSE [gotEvent |-> TRUE,
                   payloads |-> Append(reader.payloads, line.payload),
                   lastData |-> parsed[1]]

\* the body of the inner while loop for one line (455-475)
ReadLine(reader, line) ==
    IF line = BlankLine THEN reader
    ELSE IF line.field # "data" THEN reader
    ELSE IF line.payload = DonePayload THEN reader
    ELSE LET parsed == JSON_parse(line.payload)
         IN  [gotEvent |-> TRUE,
              payloads |-> Append(reader.payloads, line.payload),
              lastData |-> IF parsed = <<>> THEN reader.lastData ELSE parsed[1]]

\* variant: the lines are taken from the last to the first
RECURSIVE ReaderLoopBackwards(_, _)
ReaderLoopBackwards(reader, lines) ==
    IF lines = <<>> THEN reader
    ELSE ReaderLoopBackwards(ReadLine(reader, lines[Len(lines)]),
                             SubSeq(lines, 1, Len(lines) - 1))

\* the reader loop over the lines read (447-476)
RECURSIVE ReaderLoop(_, _)
ReaderLoop(reader, lines) ==
    IF lines = <<>> THEN reader
    ELSE ReaderLoop(ReadLine(reader, Head(lines)), Tail(lines))

\* the reader's variables when the reader loop is left
ReaderEnd(outcome) == ReaderLoop(ReaderStart, LinesRead(outcome))

\* gotEvent when the reader loop is left
gotEvent(outcome) == ReaderEnd(outcome).gotEvent

\* variant: no failed read is passed over
readErrorPassedOverNever(outcome) == FALSE

\* the catch of the reader loop passes over the error: isAbort && gotEvent
\* (477-482)
readErrorPassedOver(outcome) ==
    ReadErrorName(outcome.read) = "AbortError" /\ gotEvent(outcome)

\* return { data: lastData, text: payloads.join('\n'), baseUrl, status }
\* (495-500)
StreamReturn(status, reader) ==
    [thrown |-> FALSE, status |-> status, data |-> reader.lastData,
     text |-> reader.payloads]

\* requestStreamOnce (392-504): no catch around fetch; the status is tested
\* before the body is read; the text is never tested for the marker
requestStreamOnce(outcome) ==
    IF outcome.fetch # "response"
    THEN Throw(TransportError(
             IF outcome.fetch = "abort" THEN "AbortError" ELSE "TypeError"))
    ELSE LET status == outcome.status
         IN  IF status = 401
             THEN Throw(CloudCodeAuthError("Authorization expired", status))
             ELSE IF status = 403
             THEN Throw(CloudCodeRequestError("Cloud Code access forbidden", status,
                                              FALSE))
             ELSE IF ~responseOk(status)
             THEN Throw(CloudCodeRequestError("Cloud Code stream failed", status,
                                              retryableStatus(status)))
             ELSE IF outcome.text.kind = "null"
             THEN Throw(CloudCodeRequestError("Cloud Code stream empty body", status,
                                              TRUE))
             ELSE IF outcome.read # "complete" /\ ~readErrorPassedOver(outcome)
             THEN Throw(CloudCodeRequestError("Cloud Code stream read error", status,
                                              TRUE))
             ELSE IF ~gotEvent(outcome)
             THEN Throw(CloudCodeRequestError("Cloud Code stream received no data",
                                              status, TRUE))
             ELSE StreamReturn(status, ReaderEnd(outcome))

\* variant: the delay is not capped
getBackoffDelayNoCap(attemptNo, jitter) ==
    BACKOFF_BASE_MS * 2 ^ (attemptNo - 2) + jitter

\* getBackoffDelay(attempt), with the value Math.random() * 100 took
getBackoffDelay(attemptNo, jitter) ==
    LET raw == BACKOFF_BASE_MS * 2 ^ (attemptNo - 2)
    IN  Min(raw + jitter, BACKOFF_MAX_MS)

\* const delay = this.getBackoffDelay(attempt) at the head of a round after
\* the first (288, 327, 367)
BackoffDelay(attemptNo, jitter) ==
    /\ attemptNo > 1
    /\ lastOp' = [op |-> "backoff", attempt |-> attemptNo, jitter |-> jitter,
                  delay |-> getBackoffDelay(attemptNo, jitter)]
    /\ UNCHANGED <<now, resetVars, histVars, callVars, clientVars, hostVars>>

\* the call the retry loop awaits (292, 331, 371)
Once(op, outcome) ==
    IF op = "requestJson" THEN requestOnce(outcome)
    ELSE IF op = "requestGetJson" THEN requestGetOnce(outcome)
    ELSE requestStreamOnce(outcome)

\* the three service endpoints (part_000 5-7) and a caller's override
CLOUDCODE_URL_AUTOPUSH_SANDBOX == "https://autopush-cloudcode-pa.sandbox.googleapis.com"
CLOUDCODE_URL_DAILY == "https://daily-cloudcode-pa.googleapis.com"
CLOUDCODE_URL_PROD == "https://cloudcode-pa.googleapis.com"
OverrideUrl == "https://override.example"

\* a route flag is an optional boolean, the override an optional string
Flags == {"undefined", "true", "false"}
Overrides == {"undefined", "", OverrideUrl}

\* options?.route: NoRoute when it is undefined
NoRoute == [undefined |-> TRUE]
Routes ==
    {NoRoute} \cup
    [isGcpTos : Flags, isGoogleInternal : Flags, isInsiders : Flags,
     isDev : Flags, cloudCodeUrlOverride : Overrides]

\* the truthiness of an optional boolean and of an optional string
Truthy(value) == value \notin {"undefined", "false", ""}

\* variant: the sandbox for every route that is not isGcpTos
resolveCloudCodeBaseUrlNoDaily(route) ==
    IF route = NoRoute THEN CLOUDCODE_URL_AUTOPUSH_SANDBOX
    ELSE IF Truthy(route.cloudCodeUrlOverride) THEN route.cloudCodeUrlOverride
    ELSE IF Truthy(route.isGcpTos) THEN CLOUDCODE_URL_PROD
    ELSE CLOUDCODE_URL_AUTOPUSH_SANDBOX

\* resolveCloudCodeBaseUrl(route?)
resolveCloudCodeBaseUrl(route) ==
    IF route = NoRoute THEN CLOUDCODE_URL_DAILY
    ELSE IF Truthy(route.cloudCodeUrlOverride) THEN route.cloudCodeUrlOverride
    ELSE IF Truthy(route.isGcpTos) THEN CLOUDCODE_URL_PROD
    ELSE IF Truthy(route.isGoogleInternal)
            /\ (Truthy(route.isInsiders) \/ Truthy(route.isDev))
         THEN CLOUDCODE_URL_AUTOPUSH_SANDBOX
    ELSE CLOUDCODE_URL_DAILY

\* the routes SpecClient calls with: none, and one for each endpoint
PlainRoute ==
    [isGcpTos |-> "undefined", isGoogleInternal |-> "undefined",
     isInsiders |-> "undefined", isDev |-> "undefined",
     cloudCodeUrlOverride |-> "undefined"]
CallRoutes ==
    {NoRoute,
     [PlainRoute EXCEPT !.cloudCodeUrlOverride = OverrideUrl],
     [PlainRoute EXCEPT !.isGcpTos = "true"],
     [PlainRoute EXCEPT !.isGoogleInternal = "true", !.isDev = "true"]}

\* getRequestBaseUrls(options): the one resolved URL, as a list
getRequestBaseUrls(route) == <<resolveCloudCodeBaseUrl(route)>>

\* a tier of allowedTiers: { id?: string; isDefault?: boolean }
Tiers == [id : {"undefined", "", "t1", "t2"}, isDefault : Flags]
TierLists == UNION {[1..n -> Tiers] : n \in 0..MaxTiers}

\* Array.prototype.find with the test of 694: the first tier that is flagged
\* default and has an id, as a list of one, or <<>>
FindDefaultTier(allowedTiers) ==
    LET found == {i \in DOMAIN allowedTiers :
                     Truthy(allowedTiers[i].isDefault) /\ Truthy(allowedTiers[i].id)}
    IN  IF found = {} THEN <<>>
        ELSE <<allowedTiers[CHOOSE i \in found : \A j \in found : i <= j]>>

\* Array.prototype.find with the test of 698: the first tier that has an id
FindFirstTier(allowedTiers) ==
    LET found == {i \in DOMAIN allowedTiers : Truthy(allowedTiers[i].id)}
    IN  IF found = {} THEN <<>>
        ELSE <<allowedTiers[CHOOSE i \in found : \A j \in found : i <= j]>>

\* variant: the default flag is not looked at
pickOnboardTierFirstOnly(allowedTiers) ==
    IF FindFirstTier(allowedTiers) # <<>> THEN FindFirstTier(allowedTiers)[1].id
    ELSE IF Len(allowedTiers) > 0 THEN "LEGACY"
    ELSE "undefined"

\* pickOnboardTier(allowedTiers)
pickOnboardTier(allowedTiers) ==
    IF FindDefaultTier(allowedTiers) # <<>>
    THEN FindDefaultTier(allowedTiers)[1].id
    ELSE IF FindFirstTier(allowedTiers) # <<>>
    THEN FindFirstTier(allowedTiers)[1].id
    ELSE IF Len(allowedTiers) > 0 THEN "LEGACY"
    ELSE "undefined"

\* this.pickOnboardTier(allowedTiers) in resolveProjectId (162-163); the
\* function keeps no state, one application from the start shows them all
PickTier(allowedTiers) ==
    /\ lastOp = NoOp
    /\ lastOp' = [op |-> "pick", allowedTiers |-> allowedTiers,
                  tier |-> pickOnboardTier(allowedTiers)]
    /\ UNCHANGED <<now, resetVars, histVars, callVars, clientVars, hostVars>>

\* options?.maxAttempts: <<>> when it is undefined, else <<its value>>
MaxAttemptsOptions == {<<>>} \cup {<<n>> : n \in 0..MaxAttemptsOption}

NoError == [class |-> "undefined"]

Pending == [thrown |-> FALSE, pending |-> TRUE]

\* variant: an auth error is handled like any other error
rethrowsAuthNever(error) == FALSE

\* if (error instanceof CloudCodeAuthError) throw error (294, 333, 373)
rethrowsAuth(error) == error.class = "CloudCodeAuthError"

\* variant: every error is taken as retryable
retryableErrorAlways(error) == TRUE

\* error instanceof CloudCodeRequestError ? error.retryable : true
\* (298, 337, 377)
retryableError(error) ==
    IF error.class = "CloudCodeRequestError" THEN error.retryable ELSE TRUE

\* variant: a fresh error is raised when the budget is used up
ExhaustedErrorFresh(error) ==
    [class |-> "CloudCodeRequestError", message |-> "Cloud Code request failed",
     retryable |-> FALSE]

\* throw lastError || new CloudCodeRequestError(...) (311, 350, 389)
ExhaustedError(error) ==
    IF error # NoError THEN error
    ELSE [class |-> "CloudCodeRequestError", message |-> "Cloud Code request failed",
          retryable |-> FALSE]

\* variant: a round after the first starts without a sleep
RoundHeadNoSleep(round, error) ==
    IF round > maxAttempts
    THEN [pc |-> "done", settled |-> Throw(ExhaustedError(error))]
    ELSE [pc |-> "http", settled |-> Pending]

\* the loop from the head of the round `round` to its next await or its
\* throw: the for statement of the attempts (283-288, 322-327, 362-367)
RoundHead(round, error) ==
    IF round > maxAttempts
    THEN [pc |-> "done", settled |-> Throw(ExhaustedError(error))]
    ELSE IF round > 1
    THEN [pc |-> "sleep", settled |-> Pending]
    ELSE [pc |-> "http", settled |-> Pending]

\* a history variable: every HTTP call of the logical call so far has failed
\* with an error the loop may retry
FailedRetryable(result) ==
    /\ result.thrown
    /\ \/ result.error.class \in {"TypeError", "AbortError"}
       \/ result.error.class = "CloudCodeRequestError" /\ result.error.retryable

\* A JS number that is a whole number below 2^53, kept exactly as
\* hi * 2^28 + lo with 0 <= lo < 2^28: readVarint computes on doubles, which
\* are exact in that range, and not on 32-bit integers.
LoBits == 28
LoMod == 2 ^ LoBits
Num(hi, lo) == [hi |-> hi, lo |-> lo]
Zero == Num(0, 0)

\* variant: the sum is kept in 32 bits
AddScaled32(num, digit, shift) ==
    IF shift < LoBits
    THEN LET sum == num.lo + digit * 2 ^ shift
         IN  Num((num.hi + sum \div LoMod) % 16, sum % LoMod)
    ELSE Num((num.hi + digit * 2 ^ (shift - LoBits)) % 16, num.lo)

\* result += digit * Math.pow(2, shift), for the shifts 0, 7, 14, ..
AddScaled(num, digit, shift) ==
    IF shift < LoBits
    THEN LET sum == num.lo + digit * 2 ^ shift
         IN  Num(num.hi + sum \div LoMod, sum % LoMod)
    ELSE Num(num.hi + digit * 2 ^ (shift - LoBits), num.lo)

\* data[pos] of a Buffer: the bytes are counted from 0
ByteAt(data, pos) == data[pos + 1]

\* variant: at the end of the buffer the sum so far is returned
RECURSIVE readVarintLoopLenient(_, _, _, _)
readVarintLoopLenient(data, result, shift, pos) ==
    IF pos < Len(data)
    THEN LET byte == ByteAt(data, pos)
             sum == AddScaled(result, byte % 128, shift)
         IN  IF byte < 128
             THEN [thrown |-> FALSE, value |-> sum, offset |-> pos + 1]
             ELSE readVarintLoopLenient(data, sum, shift + 7, pos + 1)
    ELSE [thrown |-> FALSE, value |-> result, offset |-> pos]

\* the while loop of readVarint from (result, shift, pos)
RECURSIVE readVarintLoop(_, _, _, _)
readVarintLoop(data, result, shift, pos) ==
    IF pos < Len(data)
    THEN LET byte == ByteAt(data, pos)
             sum == AddScaled(result, byte % 128, shift)
         IN  IF byte < 128
             THEN [thrown |-> FALSE, value |-> sum, offset |-> pos + 1]
             ELSE readVarintLoop(data, sum, shift + 7, pos + 1)
    ELSE [thrown |-> TRUE, message |-> "Incomplete varint"]

\* readVarint(data, offset): [value, offset after it], or the error thrown
readVarint(data, offset) == readVarintLoop(data, Zero, 0, offset)

\* the numbers SpecVarint encodes: 0 .. 2^35, around the places where an
\* encoding grows by a byte and where 32 bits end
VarintValues ==
    {Num(hi, lo) : hi \in {0, 1, 7, 8, 15, 16, 127},
                   lo \in {0, 1, 127, 128, 16383, 16384, 2097151, 2097152,
                           LoMod - 1}}
        \cup {Num(128, 0)}

\* the base-128 little-endian varint of a number, the format readVarint
\* decodes: seven bits a byte, lowest first, the top bit set on all but the
\* last byte
RECURSIVE encodeVarint(_)
encodeVarint(num) ==
    LET low == num.lo % 128
        rest == Num(num.hi \div 128,
                    num.lo \div 128 + (num.hi % 128) * 2 ^ (LoBits - 7))
    IN  IF rest = Zero THEN <<low>>
        ELSE <<low + 128>> \o encodeVarint(rest)

\* a buffer of n bytes of one value
Fill(n, byte) == [i \in 1..n |-> byte]

\* the buffers read: a varint at an offset, after bytes that are not read,
\* with or without bytes after it, or cut short of its last byte; and short
\* buffers read at an offset inside them, at their end or past it
VarintBuffers ==
    {[data |-> Fill(offset, fill) \o encodeVarint(num) \o after, offset |-> offset] :
        offset \in 0..MaxOffset, fill \in {0, 255}, num \in VarintValues,
        after \in {<<>>, <<1>>, <<133>>}}
    \cup
    {[data |-> Fill(offset, 255)
                \o SubSeq(encodeVarint(num), 1, Len(encodeVarint(num)) - 1),
      offset |-> offset] :
        offset \in 0..MaxOffset, num \in VarintValues}
    \cup
    {[data |-> Fill(n, fill), offset |-> offset] :
        n \in 0..MaxOffset, offset \in 0..(MaxOffset + 1), fill \in {1, 255}}

\* readVarint(data, offset); the function keeps no state, one application
\* from the start shows them all
ReadVarint(buffer) ==
    /\ lastOp = NoOp
    /\ lastOp' = [op |-> "varint", data |-> buffer.data, offset |-> buffer.offset,
                  result |-> readVarint(buffer.data, buffer.offset)]
    /\ UNCHANGED <<now, resetVars, histVars, callVars, clientVars, hostVars>>

\* ToInt32 of a number, as the operands of & and >> are taken: the low 32
\* bits, signed
ToInt32(num) ==
    LET top == num.hi % 16
    IN  (IF top >= 8 THEN top - 16 ELSE top) * LoMod + num.lo

\* tag & 7 and tag >> 3
WireTypeOf(tag) == ToInt32(tag) % 8
FieldNumOf(tag) == ToInt32(tag) \div 8

\* offset + length as an offset into data: exact up to the end of the buffer,
\* and one past the end for every sum beyond it (all such sums end the scan
\* and clamp subarray alike)
OffsetPlus(data, offset, length) ==
    IF length.hi > 0 \/ offset + length.lo > Len(data)
    THEN Len(data) + 1
    ELSE offset + length.lo

ThrowError(message) == [thrown |-> TRUE, message |-> message]

\* skipField(data, offset, wireType): the new offset, or the error thrown
skipField(data, offset, wireType) ==
    IF wireType = 0
    THEN LET read == readVarint(data, offset)
         IN  IF read.thrown THEN read
             ELSE [thrown |-> FALSE, offset |-> read.offset]
    ELSE IF wireType = 1
    THEN [thrown |-> FALSE, offset |-> offset + 8]
    ELSE IF wireType = 2
    THEN LET read == readVarint(data, offset)
         IN  IF read.thrown THEN read
             ELSE [thrown |-> FALSE,
                   offset |-> OffsetPlus(data, read.offset, read.value)]
    ELSE IF wireType = 5
    THEN [thrown |-> FALSE, offset |-> offset + 4]
    ELSE ThrowError("Unknown wire type")

\* data.subarray(start, end): both ends are clamped to the buffer
subarray(data, start, end) ==
    SubSeq(data, Min(start, Len(data)) + 1, Min(end, Len(data)))

Absent == [thrown |-> FALSE, found |-> FALSE]

\* the while loop of findField from offset: the bytes found, absent
\* (undefined), or the error thrown
RECURSIVE findFieldLoop(_, _, _)
findFieldLoop(data, targetField, offset) ==
    IF offset < Len(data)
    THEN LET tag == readVarint(data, offset)
         IN  IF tag.thrown THEN Absent
             ELSE LET wireType == WireTypeOf(tag.value)
                      fieldNum == FieldNumOf(tag.value)
                  IN  IF fieldNum = targetField /\ wireType = 2
                      THEN LET length == readVarint(data, tag.offset)
                           IN  IF length.thrown THEN length
                               ELSE [thrown |-> FALSE, found |-> TRUE,
                                     bytes |-> subarray(data, length.offset,
                                                  OffsetPlus(data, length.offset,
                                                             length.value))]
                      ELSE LET skipped == skipField(data, tag.offset, wireType)
                           IN  IF skipped.thrown THEN skipped
                               ELSE findFieldLoop(data, targetField, skipped.offset)
    ELSE Absent

\* findField(data, targetField)
findField(data, targetField) == findFieldLoop(data, targetField, 0)

\* the wire form of a field: its tag, and its value as the wire type has it
Field(fieldNum, wireType, value) ==
    [fieldNum |-> fieldNum, wireType |-> wireType, value |-> value]
TagOf(field) == encodeVarint(Num(0, field.fieldNum * 8 + field.wireType))
FieldBytes(field) == TagOf(field) \o field.value

\* a length-delimited value: the length, in one byte or in two, and the content
Delimited(content) == <<Len(content)>> \o content
DelimitedLong(content) == <<Len(content) + 128, 0>> \o content

\* the fields SpecField puts into a buffer
ScanFields ==
    {Field(1, 0, <<172, 2>>),
     Field(2, 5, <<1, 2, 3, 4>>),
     Field(3, 1, <<1, 2, 3, 4, 5, 6, 7, 8>>),
     Field(4, 2, Delimited(<<50, 1, 7>>)),
     Field(6, 0, <<5>>),
     Field(6, 2, Delimited(<<10, 20>>)),
     Field(6, 2, DelimitedLong(<<7, 8>>)),
     Field(7, 3, <<>>),
     Field(16, 2, Delimited(<<9>>))}

RECURSIVE Concat(_)
Concat(fields) ==
    IF fields = <<>> THEN <<>>
    ELSE FieldBytes(Head(fields)) \o Concat(Tail(fields))

FieldSeqs == UNION {[1..n -> ScanFields] : n \in 0..MaxFields}

\* findField(raw, 6) of readLocalTokenInfo (171), on a buffer that holds the
\* fields and ends after its first cut bytes; the function keeps no state,
\* one application from the start shows them all
FindField(fields, cut, targetField) ==
    /\ lastOp = NoOp
    /\ cut <= Len(Concat(fields))
    /\ LET data == SubSeq(Concat(fields), 1, cut)
       IN  lastOp' = [op |-> "find", fields |-> fields, cut |-> cut,
                      data |-> data, targetField |-> targetField,
                      result |-> findField(data, targetField)]
    /\ UNCHANGED <<now, resetVars, histVars, callVars, clientVars, hostVars>>

\* a cloudaicompanionProject value: undefined, a string, or an object with an
\* optional id
Projects ==
    {[type |-> "undefined"]}
        \cup [type : {"string"}, value : {"", "p1"}]
        \cup [type : {"object"}, id : {"undefined", "p2"}]

\* extractProjectId(project)
extractProjectId(project) ==
    IF project.type = "string" /\ Truthy(project.value) THEN project.value
    ELSE IF project.type = "object" /\ Truthy(project.id) THEN project.id
    ELSE "undefined"

\* a || b on optional strings
OrElse(a, b) == IF Truthy(a) THEN a ELSE b

\* what a logical call of the client throws
CallErrors ==
    {CloudCodeAuthError("Authorization expired", 401),
     CloudCodeRequestError("Cloud Code request failed", 500, TRUE)}

\* what loadCodeAssistResponse gives: the error it throws, or the data; the
\* allowedTiers <<>> stands for the empty list and for undefined alike
LoadResponses ==
    {Throw(e) : e \in CallErrors} \cup
    [thrown : {FALSE}, cloudaicompanionProject : Projects,
     paidTierId : {"undefined", "paid"}, currentTierId : {"undefined", "current"},
     allowedTiers : {tiers \in TierLists : Len(tiers) <= 1}]

\* what onboardUser and a poll of the operation give: the error thrown, or
\* the data, whose name is "undefined" when it is not a string
OperationNames == {"undefined", "", "operations/1"}
OperationResponses ==
    {Throw(e) : e \in CallErrors} \cup
    [thrown : {FALSE}, done : Flags, name : OperationNames,
     project : {[type |-> "undefined"], [type |-> "object", id |-> "p2"]}]

ResolveReturn(id, tierId) == [thrown |-> FALSE, projectId |-> id, tierId |-> tierId]

\* resolveProjectId (150-170) up to its first await
ResolveProjectId ==
    /\ resolvePc \in {"idle", "done"}
    /\ resolvePc' = "load"
    /\ onboardTier' = "undefined"
    /\ resolveCalls' = <<"loadCodeAssist">>
    /\ pollSleeps' = <<>>
    /\ resolved' = Pending
    /\ lastOp' = [op |-> "resolve"]
    /\ UNCHANGED <<now, resetVars, histVars, callVars, hostVars>>
    /\ UNCHANGED <<operation, pc, maxAttempts, inFlight, baseUrls, attempt,
                   urlIndex, lastError, called, sleeps, settled, allRetryable>>

\* loadCodeAssistResponse settles: resolveProjectId runs to its return or to
\* the await of tryOnboardUser's requestJson (154-168, 640-658)
LoadDone(response) ==
    /\ resolvePc = "load"
    /\ lastOp' = [op |-> "load", response |-> response]
    /\ IF response.thrown
       THEN /\ resolvePc' = "done"
            /\ resolved' = response
            /\ UNCHANGED <<onboardTier, resolveCalls>>
       ELSE LET id == extractProjectId(response.cloudaicompanionProject)
                tierId == OrElse(response.paidTierId, response.currentTierId)
                tier == OrElse(pickOnboardTier(response.allowedTiers), tierId)
            IN  IF Truthy(id)
                THEN /\ resolvePc' = "done"
                     /\ resolved' = ResolveReturn(id, tierId)
                     /\ UNCHANGED <<onboardTier, resolveCalls>>
                ELSE IF ~Truthy(tier)
                THEN /\ resolvePc' = "done"
                     /\ resolved' = ResolveReturn("undefined", tierId)
                     /\ UNCHANGED <<onboardTier, resolveCalls>>
                ELSE /\ resolvePc' = "onboard"
                     /\ onboardTier' = tier
                     /\ resolveCalls' = Append(resolveCalls, "onboardUser")
                     /\ UNCHANGED resolved
    /\ UNCHANGED pollSleeps
    /\ UNCHANGED <<now, resetVars, histVars, callVars, hostVars>>
    /\ UNCHANGED <<operation, pc, maxAttempts, inFlight, baseUrls, attempt,
                   urlIndex, lastError, called, sleeps, settled, allRetryable>>

\* variant: a response that is not done is polled for whatever its name
WhileNotDoneAnyName(data) ==
    IF Truthy(data.done)
    THEN [pc |-> "done",
          resolved |-> ResolveReturn(extractProjectId(data.project), onboardTier)]
    ELSE [pc |-> "poll_sleep", resolved |-> Pending]

\* the head of while (!data?.done) with the data of the last response, up to
\* the await of the sleep, the throw, or the return of resolveProjectId
\* (660-677, 168-169)
WhileNotDone(data) ==
    IF Truthy(data.done)
    THEN [pc |-> "done",
          resolved |-> ResolveReturn(extractProjectId(data.project), onboardTier)]
    ELSE IF ~Truthy(data.name)
    THEN [pc |-> "done",
          resolved |-> Throw(CloudCodeRequestError(
                           "Cloud Code onboard operation missing name", 0, TRUE))]
    ELSE [pc |-> "poll_sleep", resolved |-> Pending]

\* the requestJson of onboardUser, or the requestGetJson of a poll, settles
\* (653-658, 667-672); a server answers "not done" MaxPolls times at most
OperationDone(response) ==
    /\ resolvePc \in {"onboard", "poll"}
    /\ (~response.thrown /\ ~Truthy(response.done) /\ Truthy(response.name))
           => Len(pollSleeps) < MaxPolls
    /\ lastOp' = [op |-> "operation", response |-> response, at |-> resolvePc,
                  calls |-> resolveCalls, sleeps |-> pollSleeps]
    /\ IF response.thrown
       THEN resolvePc' = "done" /\ resolved' = response
       ELSE LET head == WhileNotDone(response)
            IN  resolvePc' = head.pc /\ resolved' = head.resolved
    /\ UNCHANGED <<onboardTier, resolveCalls, pollSleeps>>
    /\ UNCHANGED <<now, resetVars, histVars, callVars, hostVars>>
    /\ UNCHANGED <<operation, pc, maxAttempts, inFlight, baseUrls, attempt,
                   urlIndex, lastError, called, sleeps, settled, allRetryable>>

\* await this.sleep(ONBOARD_POLL_DELAY_MS) is over: the poll is sent
\* (666-671)
PollSleepDone ==
    /\ resolvePc = "poll_sleep"
    /\ resolvePc' = "poll"
    /\ pollSleeps' = Append(pollSleeps, ONBOARD_POLL_DELAY_MS)
    /\ resolveCalls' = Append(resolveCalls, "poll")
    /\ lastOp' = [op |-> "poll_sleep", calls |-> resolveCalls]
    /\ UNCHANGED <<onboardTier, resolved>>
    /\ UNCHANGED <<now, resetVars, histVars, callVars, hostVars>>
    /\ UNCHANGED <<operation, pc, maxAttempts, inFlight, baseUrls, attempt,
                   urlIndex, lastError, called, sleeps, settled, allRetryable>>

\* requestJson / requestGetJson / requestStream (187-228) up to the first
\* await of the retry loop
ClientCall(op, optMaxAttempts, route) ==
    /\ pc \in {"idle", "done"}
    /\ operation' = op
    /\ maxAttempts' = IF optMaxAttempts = <<>> THEN DEFAULT_ATTEMPTS
                      ELSE optMaxAttempts[1]
    /\ baseUrls' = getRequestBaseUrls(route)
    /\ attempt' = 1
    /\ lastError' = NoError
    /\ sleeps' = <<>>
    /\ allRetryable' = TRUE
    /\ LET head == IF 1 > maxAttempts'
                   THEN [pc |-> "done", settled |-> Throw(ExhaustedError(NoError))]
                   ELSE [pc |-> "http", settled |-> Pending]
       IN  /\ pc' = head.pc
           /\ settled' = head.settled
           /\ urlIndex' = IF head.pc = "http" THEN 1 ELSE 0
           /\ inFlight' = IF head.pc = "http" THEN inFlight + 1 ELSE inFlight
           /\ called' = IF head.pc = "http" THEN <<baseUrls'[1]>> ELSE <<>>
    /\ lastOp' = [op |-> "call", operation |-> op, route |-> route]
    /\ UNCHANGED <<now, resetVars, histVars, callVars, onboardVars, hostVars>>

\* await this.sleep(delay) is over: the round starts with the first base URL
\* (287-292, 326-331, 366-371)
SleepDone ==
    /\ pc = "sleep"
    /\ pc' = "http"
    /\ urlIndex' = 1
    /\ called' = Append(called, baseUrls[1])
    /\ inFlight' = inFlight + 1
    /\ lastOp' = [op |-> "sleep", round |-> attempt]
    /\ UNCHANGED <<operation, maxAttempts, baseUrls, attempt, lastError, sleeps,
                   settled, allRetryable>>
    /\ UNCHANGED <<now, resetVars, histVars, callVars, onboardVars, hostVars>>

\* the awaited request...Once settles; the loop runs to its next await, its
\* return or its throw (290-311, 329-350, 369-389)
HttpDone(outcome) ==
    /\ pc = "http"
    /\ LET result == Once(operation, outcome)
           error == result.error
       IN  /\ allRetryable' = (allRetryable /\ FailedRetryable(result))
           /\ lastOp' = [op |-> "http", outcome |-> outcome, result |-> result,
                         round |-> attempt, urlIndex |-> urlIndex,
                         called |-> called, sleeps |-> sleeps]
           /\ IF ~result.thrown
              THEN /\ pc' = "done"
                   /\ settled' = result
                   /\ UNCHANGED <<attempt, urlIndex, lastError, called, sleeps>>
              ELSE IF rethrowsAuth(error)
              THEN /\ pc' = "done"
                   /\ settled' = Throw(error)
                   /\ UNCHANGED <<attempt, urlIndex, lastError, called, sleeps>>
              ELSE IF ~retryableError(error)
              THEN /\ pc' = "done"
                   /\ lastError' = error
                   /\ settled' = Throw(error)
                   /\ UNCHANGED <<attempt, urlIndex, called, sleeps>>
              ELSE IF urlIndex < Len(baseUrls)
              THEN /\ pc' = "http"
                   /\ lastError' = error
                   /\ urlIndex' = urlIndex + 1
                   /\ called' = Append(called, baseUrls[urlIndex + 1])
                   /\ UNCHANGED <<attempt, sleeps, settled>>
              ELSE LET head == RoundHead(attempt + 1, error)
                   IN  /\ pc' = head.pc
                       /\ settled' = head.settled
                       /\ lastError' = error
                       /\ attempt' = attempt + 1
                       /\ sleeps' = IF head.pc = "sleep"
                                    THEN Append(sleeps, attempt + 1) ELSE sleeps
                       /\ UNCHANGED <<urlIndex, called>>
    /\ inFlight' = IF called' # called THEN inFlight ELSE inFlight - 1
    /\ UNCHANGED <<operation, maxAttempts, baseUrls>>
    /\ UNCHANGED <<now, resetVars, histVars, callVars, onboardVars, hostVars>>

(***************************************************************************)
(* The credential store: a durable map of accounts and one active account. *)
(* Its code is not among the sources; it is modelled from section 4.3 of   *)
(* the specification and from its callers.                                 *)
(***************************************************************************)
Emails == {"a@x.com", "b@x.com"}

RefreshTokens == {"r1", "r2"}

\* getActiveAccount() of a store without an active account
NoAccount == "null"

\* a credential as the importer and trigger() use it
Credential(email, refreshToken, project) ==
    [email |-> email, refreshToken |-> refreshToken, projectId |-> project]

Credentials ==
    {Credential(email, refreshToken, "undefined") :
        email \in Emails, refreshToken \in RefreshTokens}

EmptyStorage == [accounts |-> <<>>, invalid |-> {}, activeAccount |-> NoAccount]

hasAccount(store, email) == email \in DOMAIN store.accounts

\* insert or fully overwrite by email
saveCredential(store, credential) ==
    [store EXCEPT !.accounts =
        [e \in DOMAIN store.accounts \cup {credential.email} |->
            IF e = credential.email THEN credential ELSE store.accounts[e]]]

\* fails with AccountNotFound if no credential exists for that email
setActiveAccount(store, email) ==
    IF hasAccount(store, email)
    THEN [thrown |-> FALSE, store |-> [store EXCEPT !.activeAccount = email]]
    ELSE [thrown |-> TRUE, message |-> "AccountNotFound", store |-> store]

getActiveAccount(store) == store.activeAccount

markAccountInvalid(store, email) ==
    IF hasAccount(store, email)
    THEN [store EXCEPT !.invalid = @ \cup {email}]
    ELSE store

clearAccountInvalid(store, email) == [store EXCEPT !.invalid = @ \ {email}]

\* a removal that leaves the active account as it is
removeAccountKeepActive(store, email) ==
    [store EXCEPT !.accounts = [e \in DOMAIN store.accounts \ {email} |-> store.accounts[e]],
                  !.invalid = @ \ {email}]

\* removing the active account leaves the store with no active account
removeAccount(store, email) ==
    [accounts |-> [e \in DOMAIN store.accounts \ {email} |-> store.accounts[e]],
     invalid |-> store.invalid \ {email},
     activeAccount |-> IF store.activeAccount = email THEN NoAccount
                       ELSE store.activeAccount]

StoreFrame ==
    UNCHANGED <<now, resetVars, histVars, callVars, clientVars, projectCall, importVars,
                bootVars>>

SaveCredential(credential) ==
    /\ storage' = saveCredential(storage, credential)
    /\ lastOp' = [op |-> "saveCredential", email |-> credential.email, before |-> storage]
    /\ StoreFrame

SetActiveAccount(email) ==
    /\ storage' = setActiveAccount(storage, email).store
    /\ lastOp' = [op |-> "setActiveAccount", email |-> email, before |-> storage,
                  thrown |-> setActiveAccount(storage, email).thrown]
    /\ StoreFrame

RemoveAccount(email) ==
    /\ storage' = removeAccount(storage, email)
    /\ lastOp' = [op |-> "removeAccount", email |-> email, before |-> storage]
    /\ StoreFrame

MarkAccountInvalid(email) ==
    /\ storage' = markAccountInvalid(storage, email)
    /\ lastOp' = [op |-> "markAccountInvalid", email |-> email, before |-> storage]
    /\ StoreFrame

ClearAccountInvalid(email) ==
    /\ storage' = clearAccountInvalid(storage, email)
    /\ lastOp' = [op |-> "clearAccountInvalid", email |-> email, before |-> storage]
    /\ StoreFrame

GetActiveAccount ==
    /\ lastOp' = [op |-> "getActiveAccount", result |-> getActiveAccount(storage),
                  before |-> storage]
    /\ UNCHANGED storage
    /\ StoreFrame


(***************************************************************************)
(* trigger() from its access token to its project id (1609-1620) with      *)
(* fetchProjectId (1754-1779), over the credential store.  Each await is a *)
(* step, and the store's operations may run between two steps:             *)
(*   AccessTokenResult        await this.getAccessTokenResult()      1611  *)
(*   GetCredentialResult      await credentialStorage.getCredential() 1619 *)
(*   ResolveProjectIdResult   await cloudCodeClient.resolveProjectId 1757  *)
(*   FetchGetCredentialResult await credentialStorage.getCredential() 1769 *)
(*   SaveCredentialResult     await credentialStorage.saveCredential  1772 *)
(*   FanOut                   the requests sent with the project id        *)
(* An access token is named by the account it was issued for.              *)
(***************************************************************************)
\* the project the service resolves for the account of an access token
ProjectOf(email) == "projects/" \o email

\* the fallback of lines 1777-1778
RandomProject == "projects/random/locations/global"

NoProjectCall ==
    [pc |-> "idle", accessToken |-> NoAccount, credential |-> Undefined,
     resolved |-> "undefined", projectId |-> "undefined"]

\* credentialStorage.getCredential(): the credential of the active account
getCredential(store) ==
    IF hasAccount(store, getActiveAccount(store))
    THEN store.accounts[getActiveAccount(store)]
    ELSE Undefined

ProjectFrame ==
    UNCHANGED <<now, resetVars, histVars, callVars, clientVars, importVars, bootVars>>

ProjectTriggerStart ==
    /\ projectCall.pc = "idle"
    /\ projectCall' = [NoProjectCall EXCEPT !.pc = "get_access_token"]
    /\ lastOp' = [op |-> "triggerStart"]
    /\ UNCHANGED storage
    /\ ProjectFrame

\* the token of the active account, or no valid token (1612-1614)
AccessTokenResult(ok) ==
    /\ projectCall.pc = "get_access_token"
    /\ IF ok /\ getCredential(storage) # Undefined
       THEN projectCall' = [projectCall EXCEPT !.pc = "get_project_id",
                                !.accessToken = getCredential(storage).email]
       ELSE projectCall' = NoProjectCall
    /\ lastOp' = [op |-> "accessToken", ok |-> projectCall'.pc # "idle"]
    /\ UNCHANGED storage
    /\ ProjectFrame

\* credential?.projectId || await this.fetchProjectId(accessToken)
GetCredentialResult ==
    /\ projectCall.pc = "get_project_id"
    /\ LET credential == getCredential(storage)
       IN  IF credential # Undefined /\ Truthy(credential.projectId)
           THEN projectCall' = [projectCall EXCEPT !.pc = "fan_out",
                                    !.credential = credential,
                                    !.projectId = credential.projectId]
           ELSE projectCall' = [projectCall EXCEPT !.pc = "resolve_project_id",
                                    !.credential = credential]
    /\ lastOp' = [op |-> "getCredential", cached |-> projectCall'.pc = "fan_out"]
    /\ UNCHANGED storage
    /\ ProjectFrame

\* lines 1756-1766 and 1776-1778
ResolveProjectIdResult(gotProjectId) ==
    /\ projectCall.pc = "resolve_project_id"
    /\ IF gotProjectId
       THEN projectCall' = [projectCall EXCEPT !.pc = "fetch_get_credential",
                                !.resolved = ProjectOf(projectCall.accessToken)]
       ELSE projectCall' = [projectCall EXCEPT !.pc = "fan_out",
                                !.projectId = RandomProject]
    /\ lastOp' = [op |-> "resolveProjectId", gotProjectId |-> gotProjectId]
    /\ UNCHANGED storage
    /\ ProjectFrame

\* line 1769: const credential = await credentialStorage.getCredential()
CredentialToUpdate(store, call) == getCredential(store)

\* lines 1769-1771 and 1774
FetchGetCredentialResult ==
    /\ projectCall.pc = "fetch_get_credential"
    /\ LET credential == CredentialToUpdate(storage, projectCall)
       IN  IF credential # Undefined
           THEN projectCall' = [projectCall EXCEPT !.pc = "save_credential",
                                    !.credential = [credential EXCEPT
                                        !.projectId = projectCall.resolved]]
           ELSE projectCall' = [projectCall EXCEPT !.pc = "fan_out",
                                    !.projectId = projectCall.resolved]
    /\ lastOp' = [op |-> "fetchGetCredential"]
    /\ UNCHANGED storage
    /\ ProjectFrame

\* lines 1772-1774
SaveCredentialResult ==
    /\ projectCall.pc = "save_credential"
    /\ storage' = saveCredential(storage, projectCall.credential)
    /\ projectCall' = [projectCall EXCEPT !.pc = "fan_out",
                           !.projectId = projectCall.resolved]
    /\ lastOp' = [op |-> "cacheProjectId", email |-> projectCall.credential.email,
                  accessToken |-> projectCall.accessToken,
                  active |-> getActiveAccount(storage)]
    /\ ProjectFrame

\* the requests of the worker pool, sent with accessToken and projectId
FanOut ==
    /\ projectCall.pc = "fan_out"
    /\ projectCall' = NoProjectCall
    /\ lastOp' = [op |-> "fanOut", accessToken |-> projectCall.accessToken,
                  projectId |-> projectCall.projectId,
                  active |-> getActiveAccount(storage)]
    /\ UNCHANGED storage
    /\ ProjectFrame

(***************************************************************************)
(* The local credential importer (src/unnamed/part_002):                   *)
(* previewLocalCredential (179-205) and commitLocalCredential (207-242).   *)
(* Each await is a step; a commit call is named by its place in commits.   *)
(*   PreviewStart      entry, up to the awaits of 182 and 189              *)
(*   PreviewBuilt      the credential is built; pending is set (198-201)   *)
(*   PreviewReturn     await credentialStorage.hasAccount (203-204)        *)
(*   CommitStart       entry: pending taken or not, and cleared (210-219)  *)
(*   CommitBuilt       the awaits of 222 and 226 (no pending credential)   *)
(*   CommitHasAccount  await hasAccount; 'Account already exists' (232-235)*)
(*   CommitSave        await credentialStorage.saveCredential (237)        *)
(*   CommitClearInvalid await credentialStorage.clearAccountInvalid (238)  *)
(*   CommitSetActive   await credentialStorage.setActiveAccount, return    *)
(***************************************************************************)
Null == [null |-> TRUE]

\* the commitLocalCredential calls that may be in progress together
CommitIds == {"c1", "c2"}

NoPreview == [pc |-> "idle"]

NoCommit == [pc |-> "idle"]

\* what readLocalTokenInfo finds in the local state: a refresh token or none
LocalRefreshTokens == RefreshTokens \cup {"undefined"}

\* credential.email of buildCredentialFromRefreshToken: an account or none
BuiltEmails == Emails \cup {""}

\* lines 212-215
IsFresh(pending, time) ==
    /\ pending # Null
    /\ time - pending.createdAt <= PENDING_CREDENTIAL_TTL_MS

\* variant: the pending credential is kept when it is taken
PendingAfterCommitKept(pending, time) ==
    IF IsFresh(pending, time) THEN pending ELSE Null

\* line 219: pendingLocalCredential = null
PendingAfterCommit(pending, time) == Null

\* variant: an existing account is overwritten without being asked to
MayStoreAlways(existed, overwrite) == TRUE

\* line 233: if (existed && !options.overwrite) throw
MayStore(existed, overwrite) == ~(existed /\ ~overwrite)

ImportFrame ==
    UNCHANGED <<now, resetVars, histVars, callVars, clientVars, projectCall, bootVars>>

PreviewStart ==
    /\ preview.pc = "idle"
    /\ previews < MaxPreviews
    /\ preview' = [pc |-> "build"]
    /\ lastOp' = [op |-> "previewStart"]
    /\ UNCHANGED <<storage, pendingLocalCredential, commits, previews, used>>
    /\ ImportFrame

PreviewBuilt(refreshToken, email) ==
    /\ preview.pc = "build"
    /\ IF ~Truthy(refreshToken)
       THEN /\ preview' = NoPreview
            /\ lastOp' = [op |-> "previewFail", message |-> "refresh_token not found"]
            /\ UNCHANGED <<pendingLocalCredential, previews>>
       ELSE IF ~Truthy(email)
       THEN /\ preview' = NoPreview
            /\ lastOp' = [op |-> "previewFail", message |-> "no email"]
            /\ UNCHANGED <<pendingLocalCredential, previews>>
       ELSE /\ previews' = previews + 1
            /\ pendingLocalCredential' =
                   [credential |-> Credential(email, refreshToken, "undefined"),
                    createdAt |-> now, preview |-> previews']
            /\ preview' = [pc |-> "has_account", email |-> email]
            /\ lastOp' = [op |-> "previewBuilt", email |-> email]
    /\ UNCHANGED <<storage, commits, used>>
    /\ ImportFrame

PreviewReturn ==
    /\ preview.pc = "has_account"
    /\ preview' = NoPreview
    /\ lastOp' = [op |-> "preview", email |-> preview.email,
                  exists |-> hasAccount(storage, preview.email)]
    /\ UNCHANGED <<storage, pendingLocalCredential, commits, previews, used>>
    /\ ImportFrame

CommitFail(id, message) ==
    /\ commits' = [commits EXCEPT ![id] = NoCommit]
    /\ lastOp' = [op |-> "commitFail", id |-> id, message |-> message,
                  call |-> commits[id], pending |-> pendingLocalCredential]

CommitStart(id, overwrite) ==
    /\ commits[id].pc = "idle"
    /\ LET fresh == IsFresh(pendingLocalCredential, now)
       IN  /\ commits' = [commits EXCEPT ![id] =
                  [pc |-> IF fresh THEN "has_account" ELSE "read_local",
                   overwrite |-> overwrite,
                   credential |-> IF fresh THEN pendingLocalCredential.credential
                                  ELSE Null,
                   source |-> IF fresh THEN "pending" ELSE "local",
                   storeAtStart |-> storage]]
           /\ used' = IF fresh THEN Append(used, pendingLocalCredential.preview)
                      ELSE used
           /\ lastOp' = [op |-> "commitStart", id |-> id, took |-> fresh,
                         pending |-> pendingLocalCredential]
    /\ pendingLocalCredential' = PendingAfterCommit(pendingLocalCredential, now)
    /\ UNCHANGED <<storage, preview, previews>>
    /\ ImportFrame

CommitBuilt(id, refreshToken, email) ==
    /\ commits[id].pc = "read_local"
    /\ IF ~Truthy(refreshToken) THEN CommitFail(id, "refresh_token not found")
       ELSE IF ~Truthy(email) THEN CommitFail(id, "no email")
       ELSE /\ commits' = [commits EXCEPT ![id].pc = "has_account",
                               ![id].credential =
                                   Credential(email, refreshToken, "undefined")]
            /\ lastOp' = [op |-> "commitBuilt", id |-> id]
    /\ UNCHANGED <<storage, pendingLocalCredential, preview, previews, used>>
    /\ ImportFrame

CommitHasAccount(id) ==
    /\ commits[id].pc = "has_account"
    /\ LET existed == hasAccount(storage, commits[id].credential.email)
       IN  IF MayStore(existed, commits[id].overwrite)
           THEN /\ commits' = [commits EXCEPT ![id] =
                       [pc |-> "save", overwrite |-> @.overwrite,
                        credential |-> @.credential, source |-> @.source,
                        storeAtStart |-> @.storeAtStart, existed |-> existed]]
                /\ lastOp' = [op |-> "commitHasAccount", id |-> id]
           ELSE CommitFail(id, "Account already exists")
    /\ UNCHANGED <<storage, pendingLocalCredential, preview, previews, used>>
    /\ ImportFrame

CommitSave(id) ==
    /\ commits[id].pc = "save"
    /\ storage' = saveCredential(storage, commits[id].credential)
    /\ commits' = [commits EXCEPT ![id].pc = "clear_invalid"]
    /\ lastOp' = [op |-> "commitSave", id |-> id]
    /\ UNCHANGED <<pendingLocalCredential, preview, previews, used>>
    /\ ImportFrame

CommitClearInvalid(id) ==
    /\ commits[id].pc = "clear_invalid"
    /\ storage' = clearAccountInvalid(storage, commits[id].credential.email)
    /\ commits' = [commits EXCEPT ![id].pc = "set_active"]
    /\ lastOp' = [op |-> "commitClearInvalid", id |-> id]
    /\ UNCHANGED <<pendingLocalCredential, preview, previews, used>>
    /\ ImportFrame

CommitSetActive(id) ==
    /\ commits[id].pc = "set_active"
    /\ LET done == setActiveAccount(storage, commits[id].credential.email)
       IN  IF done.thrown
           THEN CommitFail(id, done.message) /\ UNCHANGED storage
           ELSE /\ storage' = done.store
                /\ commits' = [commits EXCEPT ![id] = NoCommit]
                /\ lastOp' = [op |-> "commit", id |-> id, call |-> commits[id],
                              email |-> commits[id].credential.email,
                              existed |-> commits[id].existed,
                              pending |-> pendingLocalCredential]
    /\ UNCHANGED <<pendingLocalCredential, preview, previews, used>>
    /\ ImportFrame

\* no commitLocalCredential call is between its entry and its return
NoCommitRunning == \A id \in CommitIds : commits[id].pc = "idle"

(***************************************************************************)
(* bootSystems (src/src/extension.ts, 145-226) with its callers: activate  *)
(* (108), the setTimeout callbacks (179-181, 205-207) and onRetry (86-89). *)
(* A run is suspended at await hunter.scanEnvironment(3) (163) only; runs  *)
(* are told apart by nothing, so scans counts them.                        *)
(*   Activate    activate() calls bootSystems                              *)
(*   UserRetry   onRetry: systemOnline = false, then bootSystems           *)
(*   TimerFires  a setTimeout callback calls bootSystems                   *)
(*   ScanDone    the scan of one run settles; the run goes on to its end   *)
(***************************************************************************)
QuotaSources == {"local", "authorized"}

\* what hunter.scanEnvironment gives: the environment, nothing, or an error
ScanOutcomes == {"info", "none", "error"}

\* variant: one more retry than MAX_AUTO_RETRY
MayRetryOnceMore(count) == count <= MAX_AUTO_RETRY

\* lines 174 and 200: autoRetryCount < MAX_AUTO_RETRY
MayRetry(count) == count < MAX_AUTO_RETRY

BootFrame ==
    UNCHANGED <<now, resetVars, histVars, callVars, clientVars, storage, projectCall,
                importVars>>

\* bootSystems from its entry to its first await or its return (146-163);
\* online is systemOnline at the entry
BootEntry(caller, online, quotaSource) ==
    IF online
    THEN /\ systemOnline' = online
         /\ lastOp' = [op |-> "boot", caller |-> caller, path |-> "online"]
         /\ UNCHANGED <<autoRetryCount, scans, statusBar>>
    ELSE IF quotaSource = "authorized"
    THEN /\ systemOnline' = TRUE
         /\ autoRetryCount' = 0
         /\ statusBar' = "loading"
         /\ lastOp' = [op |-> "boot", caller |-> caller, path |-> "started",
                       wasOnline |-> online, overlapping |-> scans]
         /\ UNCHANGED scans
    ELSE /\ systemOnline' = online
         /\ scans' = scans + 1
         /\ statusBar' = "loading"
         /\ lastOp' = [op |-> "boot", caller |-> caller, path |-> "scan"]
         /\ UNCHANGED autoRetryCount

Activate(quotaSource) ==
    /\ ~activated
    /\ activated' = TRUE
    /\ BootEntry("activate", systemOnline, quotaSource)
    /\ UNCHANGED timers
    /\ BootFrame

UserRetry(quotaSource) ==
    /\ activated
    /\ scans + timers < MaxBootRuns
    /\ BootEntry("onRetry", FALSE, quotaSource)
    /\ UNCHANGED <<activated, timers>>
    /\ BootFrame

TimerFires(quotaSource) ==
    /\ timers > 0
    /\ timers' = timers - 1
    /\ BootEntry("timer", systemOnline, quotaSource)
    /\ UNCHANGED activated
    /\ BootFrame

\* handleOfflineState (231-260): the status bar after it
handleOfflineState(quotaSource) ==
    IF quotaSource = "authorized" THEN statusBar ELSE "offline"

\* lines 165-225, after the await of line 163; quotaSource is the
\* configuration at that time
ScanDone(outcome, quotaSource) ==
    /\ scans > 0
    /\ scans' = scans - 1
    /\ IF outcome = "info"
       THEN /\ systemOnline' = TRUE
            /\ autoRetryCount' = 0
            /\ statusBar' = "ready"
            /\ lastOp' = [op |-> "boot", caller |-> "scan", path |-> "started",
                          wasOnline |-> systemOnline, overlapping |-> scans']
            /\ UNCHANGED timers
       ELSE IF MayRetry(autoRetryCount)
       THEN /\ autoRetryCount' = autoRetryCount + 1
            /\ timers' = timers + 1
            /\ statusBar' = "loading"
            /\ lastOp' = [op |-> "boot", caller |-> "scan", path |-> "retry",
                          outcome |-> outcome, countBefore |-> autoRetryCount]
            /\ UNCHANGED systemOnline
       ELSE /\ autoRetryCount' = 0
            /\ statusBar' = IF outcome = "none" THEN handleOfflineState(quotaSource)
                            ELSE "error"
            /\ lastOp' = [op |-> "boot", caller |-> "scan", path |-> "gaveUp",
                          outcome |-> outcome, countBefore |-> autoRetryCount,
                          quotaSource |-> quotaSource, statusBefore |-> statusBar]
            /\ UNCHANGED <<systemOnline, timers>>
    /\ UNCHANGED activated
    /\ BootFrame

Init ==
    /\ now = 0
    /\ lastResetTriggerTimestamps = EmptyMap
    /\ lastResetTriggerAt = EmptyMap
    /\ lastResetRemaining = EmptyMap
    /\ storedResetTimestamps = EmptyMap
    /\ storedResetAt = EmptyMap
    /\ pendingMark = NoMark
    /\ lastOp = NoOp
    /\ lastMarked = EmptyMap
    /\ woken = [m \in Models |-> {}]
    /\ scen = [m \in Models |-> NoScen]
    /\ recentTriggers = <<>>
    /\ storedHistory = <<>>
    /\ stage = "idle"
    /\ triggerModels = 0
    /\ nextIndex = 0
    /\ workers = <<>>
    /\ results = EmptyMap
    /\ requestsSent = EmptyMap
    /\ outcomesRecorded = EmptyMap
    /\ tokenResult = NoToken
    /\ projectId = "none"
    /\ operation = "none"
    /\ pc = "idle"
    /\ maxAttempts = 0
    /\ baseUrls = <<>>
    /\ inFlight = 0
    /\ attempt = 0
    /\ urlIndex = 0
    /\ lastError = NoError
    /\ called = <<>>
    /\ sleeps = <<>>
    /\ settled = Pending
    /\ allRetryable = TRUE
    /\ resolvePc = "idle"
    /\ onboardTier = "undefined"
    /\ resolveCalls = <<>>
    /\ pollSleeps = <<>>
    /\ resolved = Pending
    /\ storage = EmptyStorage
    /\ projectCall = NoProjectCall
    /\ pendingLocalCredential = Null
    /\ preview = NoPreview
    /\ commits = [id \in CommitIds |-> NoCommit]
    /\ previews = 0
    /\ used = <<>>
    /\ activated = FALSE
    /\ systemOnline = FALSE
    /\ autoRetryCount = 0
    /\ timers = 0
    /\ scans = 0
    /\ statusBar = "none"

NextReset ==
    \/ \E m \in Models, r \in ResetAts, rem \in Remainings, lim \in Limits :
           shouldTriggerOnReset(m, r, rem, lim)
    \/ \E m \in Models, r \in ResetAts : markResetTriggered(m, r)
    \/ initialize
    \/ Tick(ResetTickMs, MaxResetTicks)

SpecReset == Init /\ [][NextReset]_vars

\* the history under repeated trigger() calls that find no usable token
NextHistory ==
    \/ TriggerStart(1, maxRecords + 1)
    \/ TokenResult("expired", FALSE)
    \/ clearHistory
    \/ initialize
    \/ Tick(HistTickMs, MaxHistTicks)

SpecHistory == Init /\ [][NextHistory]_vars

\* trigger() in full, from a short history and with the project id cached on
\* the credential
NextTrigger ==
    \/ \E models \in 0..MaxModels : TriggerStart(models, MaxTriggerHistory)
    \/ \E state \in TokenStates, hasToken \in BOOLEAN : TokenResult(state, hasToken)
    \/ ProjectIdResult("cached")
    \/ \E w \in 1..MAX_TRIGGER_CONCURRENCY, outcome \in RequestOutcomes :
           RequestDone(w, outcome)
    \/ TriggerFinish

SpecTrigger == Init /\ [][NextTrigger]_vars

\* trigger() for a few models, with every way of getting the project id
NextProject ==
    \/ \E models \in 1..MaxProjectModels : TriggerStart(models, MaxTriggerHistory)
    \/ \E state \in TokenStates, hasToken \in BOOLEAN : TokenResult(state, hasToken)
    \/ \E outcome \in ProjectIdOutcomes : ProjectIdResult(outcome)
    \/ \E w \in 1..MAX_TRIGGER_CONCURRENCY, outcome \in RequestOutcomes :
           RequestDone(w, outcome)
    \/ TriggerFinish

SpecProject == Init /\ [][NextProject]_vars

\* logical calls of the client, one after the other
NextClient ==
    \/ \E op \in Operations, optMaxAttempts \in MaxAttemptsOptions,
          route \in CallRoutes : ClientCall(op, optMaxAttempts, route)
    \/ SleepDone
    \/ \E outcome \in HttpOutcomes : HttpDone(outcome)

SpecClient == Init /\ [][NextClient]_vars

\* single-round requestJson calls with every route
NextRoute ==
    \/ \E route \in Routes : ClientCall("requestJson", <<1>>, route)
    \/ \E outcome \in HttpOutcomes : HttpDone(outcome)

SpecRoute == Init /\ [][NextRoute]_vars

\* requestStream calls that get a 200 response with a body of lines
StreamOutcomes ==
    [fetch : {"response"}, status : {200}, text : StreamTexts, read : Reads]

NextStream ==
    \/ \E optMaxAttempts \in {<<>>, <<1>>} :
          ClientCall("requestStream", optMaxAttempts, NoRoute)
    \/ SleepDone
    \/ \E outcome \in StreamOutcomes : HttpDone(outcome)

SpecStream == Init /\ [][NextStream]_vars

\* the onboarding tier of every allowedTiers list
NextTier == \E allowedTiers \in TierLists : PickTier(allowedTiers)

SpecTier == Init /\ [][NextTier]_vars

\* resolveProjectId calls, one after the other
NextOnboard ==
    \/ ResolveProjectId
    \/ \E response \in LoadResponses : LoadDone(response)
    \/ \E response \in OperationResponses : OperationDone(response)
    \/ PollSleepDone

SpecOnboard == Init /\ [][NextOnboard]_vars

\* the varints read from the buffers
NextVarint == \E buffer \in VarintBuffers : ReadVarint(buffer)

SpecVarint == Init /\ [][NextVarint]_vars

\* the scans of the buffers for the field 6, which readLocalTokenInfo looks
\* for, and for the field 4
NextField ==
    \E fields \in FieldSeqs, targetField \in {4, 6} :
        \E cut \in 0..Len(Concat(fields)) : FindField(fields, cut, targetField)

SpecField == Init /\ [][NextField]_vars

\* the credential store under every sequence of its operations
NextStore ==
    \/ \E credential \in Credentials : SaveCredential(credential)
    \/ \E email \in Emails : SetActiveAccount(email)
    \/ \E email \in Emails : RemoveAccount(email)
    \/ \E email \in Emails : MarkAccountInvalid(email)
    \/ \E email \in Emails : ClearAccountInvalid(email)
    \/ GetActiveAccount

SpecStore == Init /\ [][NextStore]_vars

\* trigger() up to its project id, with the accounts saved, switched and
\* removed between its steps
NextAccount ==
    \/ \E credential \in Credentials : SaveCredential(credential)
    \/ \E email \in Emails : SetActiveAccount(email)
    \/ \E email \in Emails : RemoveAccount(email)
    \/ ProjectTriggerStart
    \/ \E ok \in BOOLEAN : AccessTokenResult(ok)
    \/ GetCredentialResult
    \/ \E gotProjectId \in BOOLEAN : ResolveProjectIdResult(gotProjectId)
    \/ FetchGetCredentialResult
    \/ SaveCredentialResult
    \/ FanOut

SpecAccount == Init /\ [][NextAccount]_vars

PreviewSteps(refreshTokens, emails) ==
    \/ PreviewStart
    \/ \E refreshToken \in refreshTokens, email \in emails :
           PreviewBuilt(refreshToken, email)
    \/ PreviewReturn

CommitSteps(id, refreshTokens, emails) ==
    \/ \E overwrite \in BOOLEAN : CommitStart(id, overwrite)
    \/ \E refreshToken \in refreshTokens, email \in emails :
           CommitBuilt(id, refreshToken, email)
    \/ CommitHasAccount(id)
    \/ CommitSave(id)
    \/ CommitClearInvalid(id)
    \/ CommitSetActive(id)

\* one commitLocalCredential call at a time, previews at any time, and the
\* other writers of the store between two commits
NextImport ==
    \/ PreviewSteps(LocalRefreshTokens, BuiltEmails)
    \/ CommitSteps("c1", LocalRefreshTokens, BuiltEmails)
    \/ NoCommitRunning /\ \E email \in Emails : MarkAccountInvalid(email)
    \/ NoCommitRunning /\ \E email \in Emails : RemoveAccount(email)
    \/ NoCommitRunning /\ \E email \in Emails : SetActiveAccount(email)

SpecImport == Init /\ [][NextImport]_vars

\* previews and overlapping commits, of one account, while the
\* clock runs
NextPending ==
    \/ PreviewSteps({"r1", "undefined"}, {"a@x.com", ""})
    \/ \E id \in CommitIds : CommitSteps(id, {"r1", "undefined"}, {"a@x.com", ""})
    \/ Tick(ImportTickMs, MaxImportTicks)

SpecPending == Init /\ [][NextPending]_vars

\* bootSystems under every interleaving of its callers
NextBoot ==
    \/ \E quotaSource \in QuotaSources : Activate(quotaSource)
    \/ \E quotaSource \in QuotaSources : UserRetry(quotaSource)
    \/ \E quotaSource \in QuotaSources : TimerFires(quotaSource)
    \/ \E outcome \in ScanOutcomes, quotaSource \in QuotaSources :
           ScanDone(outcome, quotaSource)

SpecBoot == Init /\ [][NextBoot]_vars

\* the backoff delays of the rounds after the first
NextBackoff ==
    \E attemptNo \in 2..MaxBackoffAttempt, jitter \in 0..MaxJitterMs :
        BackoffDelay(attemptNo, jitter)

SpecBackoff == Init /\ [][NextBackoff]_vars

(***************************************************************************)
(* Claims about the reset-trigger detector, checked under SpecReset.       *)
(***************************************************************************)
IsShould == lastOp.op = "should"

IsWake == IsShould /\ lastOp.result

\* C1 (as stated): at most one wake-up is ever issued for the same model and
\* the same resetAt value: no wake-up is issued for a resetAt the model was
\* woken for before.
C1_OneWakePerResetAt == IsWake => ~lastOp.wokenBefore

\* C1 (amended): a wake-up is never issued for the resetAt of the model's
\* previous wake-up: two successive wake-ups of one model carry different
\* resetAt values.
C1_SuccessiveWakesDiffer == IsWake => lastOp.resetAt # lastOp.markedResetAt

C1_Witness ==
    IsWake /\ lastOp.marked /\ lastOp.resetAt # lastOp.markedResetAt /\ lastOp.hadRemaining

\* C2: a shouldTriggerOnReset call made less than the cooldown after the
\* model's last markResetTriggered returns false, so a wake-up of a model is
\* never less than the cooldown after the previous one.
C2_CooldownRespected ==
    (IsShould /\ lastOp.marked /\ lastOp.sinceMark < RESET_TRIGGER_COOLDOWN_MS)
        => ~lastOp.result

\* a call that only the cooldown stops: full, rising edge, another resetAt
C2_Witness ==
    /\ IsShould /\ lastOp.marked /\ ~lastOp.result
    /\ lastOp.sinceMark > 0 /\ lastOp.sinceMark < RESET_TRIGGER_COOLDOWN_MS
    /\ lastOp.remaining >= lastOp.limit
    /\ lastOp.hadRemaining /\ lastOp.prevRemaining < lastOp.limit
    /\ lastOp.resetAt # lastOp.watermark

\* C3 (as stated): the fourth call of the edge scenario (full, another resetAt)
\* returns false while the cooldown runs and true once it has elapsed.
C3_FourthTrueAfterCooldown ==
    (IsShould /\ lastOp.fourth)
        => (lastOp.result <=> lastOp.sinceMark >= RESET_TRIGGER_COOLDOWN_MS)

\* C3 (amended): the fourth call of the edge scenario returns false, while the
\* cooldown runs and after it has elapsed: the observation before it was full.
C3_FourthFalse == (IsShould /\ lastOp.fourth) => ~lastOp.result

C3_Witness ==
    /\ IsShould /\ lastOp.fourth /\ ~lastOp.result
    /\ lastOp.sinceMark >= RESET_TRIGGER_COOLDOWN_MS

\* C4: shouldTriggerOnReset returns true only if remaining >= limit, resetAt
\* differs from the stored watermark, no trigger was marked within the
\* cooldown, and the service holds no earlier observation of the model or the
\* one it holds is below limit.
C4_TrueOnlyIf ==
    IsWake =>
        /\ lastOp.remaining >= lastOp.limit
        /\ lastOp.resetAt # lastOp.watermark
        /\ lastOp.marked => lastOp.sinceMark >= RESET_TRIGGER_COOLDOWN_MS
        /\ ~lastOp.hadRemaining \/ lastOp.prevRemaining < lastOp.limit

C4_Witness ==
    /\ IsWake /\ lastOp.marked /\ lastOp.hadRemaining
    /\ lastOp.prevRemaining < lastOp.limit /\ lastOp.watermark # "none"

\* C5: after every shouldTriggerOnReset call the last observed remaining of
\* the model equals the remaining argument of the call.
C5_RemainingStored ==
    IsShould =>
        /\ lastOp.model \in DOMAIN lastResetRemaining
        /\ lastResetRemaining[lastOp.model] = lastOp.remaining

\* a call that leaves through the cooldown exit and changes the stored value
C5_Witness ==
    /\ IsShould /\ ~lastOp.result /\ lastOp.remaining >= lastOp.limit
    /\ lastOp.marked /\ lastOp.sinceMark < RESET_TRIGGER_COOLDOWN_MS
    /\ lastOp.hadRemaining /\ lastOp.prevRemaining # lastOp.remaining

\* C6 (as stated): after a restart the three watermark maps equal their values
\* before the restart.
C6_AllThreeSurvive ==
    lastOp.op = "restart" =>
        <<lastResetTriggerTimestamps, lastResetTriggerAt, lastResetRemaining>>
            = lastOp.before

\* C6 (amended): after a restart the last triggered resetAt and the last
\* trigger time of every model equal their values before the restart; the
\* last observed remaining is not kept: it is absent for every model.
C6_TwoSurvive ==
    lastOp.op = "restart" =>
        /\ lastResetTriggerTimestamps = lastOp.before[1]
        /\ lastResetTriggerAt = lastOp.before[2]
        /\ lastResetRemaining = EmptyMap

C6_Witness ==
    /\ lastOp.op = "restart"
    /\ DOMAIN lastResetTriggerAt = Models
    /\ DOMAIN lastOp.before[3] # {}

(***************************************************************************)
(* Claims about the trigger history, checked under SpecHistory.            *)
(***************************************************************************)
IsTriggerReturn == lastOp.op = "trigger"

IsHistoryWrite == lastOp.op \in {"trigger", "restart", "clear"}

TimeOf(record) == getTime(record.timestamp)

\* the records of a list that are younger than 7 days now
Qualifying(records) ==
    SelectSeq(records, LAMBDA record : now - TimeOf(record) < maxDays * MsPerDay)

CountAt(records, t) ==
    Cardinality({i \in DOMAIN records : TimeOf(records[i]) = t})

\* C7: after every history write (addRecord from trigger(), loadHistory from
\* initialize(), clearHistory) the history holds at most 40 records and no
\* record 7 days or more older than the time of that write.
C7_Retention ==
    IsHistoryWrite =>
        /\ Len(recentTriggers) <= maxRecords
        /\ \A i \in DOMAIN recentTriggers :
               now - TimeOf(recentTriggers[i]) < maxDays * MsPerDay

\* a write onto a full history that holds records of two ages
C7_Witness ==
    /\ IsTriggerReturn
    /\ Len(lastOp.before) = maxRecords
    /\ Len(recentTriggers) = maxRecords
    /\ TimeOf(recentTriggers[maxRecords]) < TimeOf(recentTriggers[1])

\* C8: the history is ordered newest first, the record of the latest
\* trigger() call is at index 0, and when more than 40 records qualify the
\* records dropped are the oldest ones.
C8_NewestFirst ==
    /\ \A i, j \in DOMAIN recentTriggers :
           i < j => TimeOf(recentTriggers[i]) >= TimeOf(recentTriggers[j])
    /\ IsTriggerReturn =>
           LET candidates == Qualifying(<<lastOp.record>> \o lastOp.before)
           IN  /\ Len(recentTriggers) >= 1
               /\ recentTriggers[1] = lastOp.record
               /\ Len(candidates) > maxRecords =>
                      /\ Len(recentTriggers) = maxRecords
                      /\ \A i \in DOMAIN candidates :
                             LET t == TimeOf(candidates[i])
                             IN  CountAt(candidates, t) > CountAt(recentTriggers, t)
                                 => \A k \in DOMAIN recentTriggers :
                                        TimeOf(recentTriggers[k]) >= t

\* 41 records qualify, of two ages, and one of the oldest is dropped
C8_Witness ==
    /\ IsTriggerReturn
    /\ Len(Qualifying(lastOp.before)) = maxRecords
    /\ TimeOf(lastOp.before[maxRecords]) < TimeOf(lastOp.before[1])
    /\ TimeOf(recentTriggers[maxRecords]) = TimeOf(lastOp.before[maxRecords])

(***************************************************************************)
(* Claims about trigger(), checked under SpecTrigger.                      *)
(***************************************************************************)
CallSteps == {"start", "token", "project", "request"}

AllIndices == {i \in 0..(triggerModels - 1) : TRUE}

C10_EachModelOnce ==
    /\ \A i \in DOMAIN requestsSent : requestsSent[i] = 1 /\ i \in AllIndices
    /\ \A i \in DOMAIN outcomesRecorded :
           outcomesRecorded[i] = 1 /\ i \in DOMAIN requestsSent
    /\ \A v, w \in DOMAIN workers :
           (v # w /\ workers[v].state = "await" /\ workers[w].state = "await")
               => workers[v].currentIndex # workers[w].currentIndex
    /\ stage = "send_trigger_request" =>
           \A i \in AllIndices : i < nextIndex => i \in DOMAIN requestsSent
    /\ (IsTriggerReturn /\ lastOp.path = "fanout") =>
           /\ DOMAIN requestsSent = AllIndices
           /\ DOMAIN outcomesRecorded = AllIndices
           /\ DOMAIN results = AllIndices
    /\ (IsTriggerReturn /\ lastOp.path = "catch") => DOMAIN requestsSent = {}

\* more models than workers: the request of the first model has failed, and
\* an auth failure of a later request is stored while the call goes on
C10_Witness ==
    /\ lastOp.op = "request" /\ lastOp.outcome = "auth"
    /\ stage = "send_trigger_request"
    /\ triggerModels > MAX_TRIGGER_CONCURRENCY
    /\ 0 \in DOMAIN results /\ ~results[0].ok
    /\ 1 \in DOMAIN results /\ ~results[1].ok
    /\ nextIndex >= triggerModels

\* the requests sent and not yet settled
InFlight == {i \in DOMAIN requestsSent : i \notin DOMAIN outcomesRecorded}

Awaiting == {w \in DOMAIN workers : workers[w].state = "await"}

\* C11: during a trigger() call at most MAX_TRIGGER_CONCURRENCY (4) model
\* requests are in flight at the same time, for any number of requested models
\* and any order in which the requests settle.
C11_BoundedInFlight ==
    /\ Cardinality(InFlight) <= MAX_TRIGGER_CONCURRENCY
    /\ Cardinality(Awaiting) <= MAX_TRIGGER_CONCURRENCY
    /\ stage = "send_trigger_request" => Cardinality(InFlight) = Cardinality(Awaiting)

\* more models than workers: a request has settled, its worker has sent the
\* next one, and the pool is full again
C11_Witness ==
    /\ lastOp.op = "request"
    /\ triggerModels > MAX_TRIGGER_CONCURRENCY
    /\ Cardinality(InFlight) = MAX_TRIGGER_CONCURRENCY
    /\ MAX_TRIGGER_CONCURRENCY \in InFlight

IsFanoutReturn == IsTriggerReturn /\ lastOp.path = "fanout"

SomeSucceeded == \E i \in DOMAIN results : results[i].ok

\* C12: the record trigger() returns has success = true exactly when the
\* request of at least one requested model succeeded; its message holds the
\* outcome line of every requested model, once, and no failure line stands
\* before a success line.
C12_SuccessAndMessage ==
    /\ IsTriggerReturn => (lastOp.record.success <=> SomeSucceeded)
    /\ IsFanoutReturn =>
           LET message == lastOp.record.message
           IN  /\ Len(message) = triggerModels
               /\ \A i \in AllIndices :
                      \E k \in DOMAIN message :
                          /\ message[k] = results[i]
                          /\ message[k].model = i
               /\ \A j, k \in DOMAIN message :
                      (j < k /\ message[k].ok) => message[j].ok

\* a failed model of a lower index than a succeeded one: the success line
\* comes first
C12_Witness ==
    /\ IsFanoutReturn
    /\ triggerModels > 2
    /\ ~results[0].ok /\ results[1].ok /\ ~results[2].ok
    /\ lastOp.record.message[1].model = 1
    /\ lastOp.record.success

TokenIsUsable == tokenResult.state = "ok" /\ tokenResult.token

\* C13: when the token status trigger() obtains is not ok with a token
\* (expired, invalid_grant, refresh_failed, unauthenticated, or ok without a
\* token) the call fails as a whole: no project id is resolved, no model
\* request is sent, and the record returned has success = false.
C13_NoTokenFailsCall ==
    /\ (IsTriggerReturn /\ ~TokenIsUsable) =>
           /\ lastOp.path = "catch"
           /\ ~lastOp.record.success
           /\ lastOp.record.message = [error |-> "No valid access token"]
           /\ recentTriggers[1] = lastOp.record
    /\ (projectId # "none" \/ requestsSent # EmptyMap \/ workers # <<>>
          \/ stage \in {"get_project_id", "send_trigger_request"}) => TokenIsUsable

\* an expired status that still carries a token string
C13_Witness ==
    /\ IsTriggerReturn
    /\ tokenResult.state = "expired" /\ tokenResult.token
    /\ triggerModels > 1

IsResolutionFailure ==
    lastOp.op = "project" /\ lastOp.outcome \in {"no_project_id", "resolve_failed"}

\* C14: when the project-id resolution of trigger() throws or returns no
\* project id, the fan-out still runs for every requested model, with the
\* placeholder project path; the failure does not abort the call (only an
\* unusable token does) and does not by itself make the record unsuccessful.
C14_ResolutionFailureGoesOn ==
    /\ IsResolutionFailure =>
           /\ stage = "send_trigger_request"
           /\ projectId = "placeholder"
           /\ InFlight = {i \in AllIndices : i < MAX_TRIGGER_CONCURRENCY}
    /\ (IsTriggerReturn /\ lastOp.path = "catch") => ~TokenIsUsable
    /\ (IsFanoutReturn /\ projectId = "placeholder") =>
           /\ DOMAIN requestsSent = AllIndices
           /\ DOMAIN results = AllIndices
           /\ lastOp.record.success <=> SomeSucceeded
    /\ stage = "send_trigger_request" => projectId # "none"

\* a call on the placeholder project path that returns a successful record
C14_Witness ==
    /\ IsFanoutReturn
    /\ projectId = "placeholder"
    /\ lastOp.record.success
    /\ triggerModels > 1

(***************************************************************************)
(* Claims about CloudCodeClient, checked under SpecClient.                 *)
(***************************************************************************)
IsHttpDone == lastOp.op = "http"

IsThrown == pc = "done" /\ settled.thrown

ClientErrors == {"CloudCodeAuthError", "CloudCodeRequestError"}

\* the step made no HTTP call and started no sleep
NothingFurther == called = lastOp.called /\ sleeps = lastOp.sleeps

\* C15: when every HTTP call of a logical call fails with a retryable error,
\* requestJson, requestGetJson and requestStream with maxAttempts = N make
\* exactly N x (number of base URLs) HTTP calls and then raise a RequestError.
C15_RetryExhaustion ==
    (pc = "done" /\ allRetryable) =>
        /\ Len(called) = maxAttempts * Len(baseUrls)
        /\ settled.thrown
        /\ settled.error.class = "CloudCodeRequestError"

\* the HTTP call got a response of status 401 (for requestJson and
\* requestGetJson: with its body, which they read before they test the status)
Answers401 ==
    /\ IsHttpDone
    /\ lastOp.outcome.fetch = "response"
    /\ lastOp.outcome.status = 401
    /\ operation = "requestStream" \/ lastOp.outcome.read = "complete"

\* C16: when an HTTP call of requestJson, requestGetJson or requestStream
\* answers 401, at whichever round and base URL, the operation raises an
\* AuthError and makes no further HTTP call and no backoff sleep.
C16_AuthShortCircuit ==
    Answers401 =>
        /\ IsThrown
        /\ settled.error.class = "CloudCodeAuthError"
        /\ settled.error.status = 401
        /\ NothingFurther
        /\ attempt = lastOp.round /\ urlIndex = lastOp.urlIndex

\* a 401 in a later round, with a round still to come
C16_Witness ==
    /\ Answers401
    /\ lastOp.round > 1 /\ lastOp.round < maxAttempts
    /\ operation = "requestGetJson"

HasMarker == lastOp.outcome.text.marker \in {"invalid_grant", "INVALID_GRANT"}

\* C17: for JSON POST, GET and streaming POST alike, a response whose body
\* contains the invalid_grant marker is surfaced as AuthError, whatever the
\* status (a 200-range status too), and is not retried.
C17_InvalidGrantIsAuth ==
    (/\ IsHttpDone
     /\ lastOp.outcome.fetch = "response"
     /\ lastOp.outcome.read = "complete"
     /\ HasMarker) =>
        /\ IsThrown
        /\ settled.error.class = "CloudCodeAuthError"
        /\ NothingFurther

\* C18: every failure requestJson, requestGetJson or requestStream surfaces is
\* an AuthError or a RequestError, whatever the HTTP calls met.
C18_ClosedTaxonomy == IsThrown => settled.error.class \in ClientErrors

IsRequestErrorOfCall ==
    /\ IsHttpDone
    /\ lastOp.result.thrown
    /\ lastOp.result.error.class = "CloudCodeRequestError"

\* the HTTP call met a network error or the timeout: at fetch, or while the
\* body was read (requestStreamOnce reads it on a 2xx status only)
HitTransportFailure ==
    LET outcome == lastOp.outcome
    IN  \/ outcome.fetch # "response"
        \/ /\ outcome.read # "complete"
           /\ \/ operation # "requestStream"
              \/ /\ outcome.status \in 200..299
                 /\ outcome.text.kind # "null"

RetryableStatusMet ==
    /\ lastOp.outcome.fetch = "response"
    /\ lastOp.outcome.status = 429 \/ lastOp.outcome.status >= 500

\* C19 (as stated): the retryable flag of a RequestError produced by one HTTP
\* call is true exactly for HTTP 429, a status >= 500, network errors and
\* timeouts, and false otherwise (HTTP 403 and every other 4xx status).
C19_RetryableExactly ==
    IsRequestErrorOfCall =>
        (lastOp.result.error.retryable <=> (HitTransportFailure \/ RetryableStatusMet))

\* C19 (amended): the flag is true exactly for HTTP 429, a status >= 500,
\* network errors, timeouts and a 2xx response whose body cannot be used (it
\* does not parse; for a stream: no body or no data event); it is false for
\* HTTP 403 and every other status outside the 200 range.
C19_RetryableOrUnusableBody ==
    IsRequestErrorOfCall =>
        (lastOp.result.error.retryable
            <=> \/ HitTransportFailure
                \/ RetryableStatusMet
                \/ lastOp.outcome.status \in 200..299)

\* a 200 response whose body does not parse
C19_Witness ==
    /\ IsRequestErrorOfCall
    /\ ~HitTransportFailure
    /\ lastOp.outcome.status = 200
    /\ lastOp.result.error.retryable
    /\ operation = "requestJson"

IsNonRetryable == IsRequestErrorOfCall /\ ~lastOp.result.error.retryable

\* C20: a non-retryable RequestError of an HTTP call (HTTP 403 or another
\* non-429 4xx) ends the logical call at once: it is rethrown unchanged, no
\* further base URL is tried, no further round is started and no backoff
\* sleep follows.
C20_NonRetryableEnds ==
    IsNonRetryable =>
        /\ IsThrown
        /\ settled.error = lastOp.result.error
        /\ NothingFurther
        /\ attempt = lastOp.round /\ urlIndex = lastOp.urlIndex

\* a 403 in a later round, with a round still to come
C20_Witness ==
    /\ IsNonRetryable
    /\ lastOp.outcome.status = 403
    /\ lastOp.round > 1 /\ lastOp.round < maxAttempts

IsExhausted == pc = "done" /\ allRetryable /\ called # <<>>

\* the error the loop goes on with: any error but an AuthError and a
\* RequestError that is not retryable
GoesOnAfter(error) ==
    /\ error.class \notin {"undefined", "CloudCodeAuthError"}
    /\ error.class = "CloudCodeRequestError" => error.retryable

SleptBeforeRounds(n) == sleeps = [i \in 1..(n - 1) |-> i + 1]

\* C23: within one logical call at most one HTTP request is in flight; a
\* request starts only when no other is in flight (the one before it has
\* settled), and exactly one backoff sleep comes before each round after the
\* first, none before round 1.
C23_OneRequestInFlight ==
    /\ inFlight \in {0, 1}
    /\ inFlight = 1 <=> pc = "http"
    /\ pc = "http" =>
           /\ Len(called) = attempt
           /\ SleptBeforeRounds(attempt)
    /\ pc = "sleep" =>
           /\ Len(called) = attempt - 1
           /\ attempt > 1 /\ attempt <= maxAttempts
           /\ SleptBeforeRounds(attempt)
    /\ (IsHttpDone /\ lastOp.round = 1) => lastOp.sleeps = <<>>
    /\ lastOp.op = "call" => sleeps = <<>>
    /\ lastOp.op = "sleep" => inFlight = 1 /\ called[Len(called)] = baseUrls[1]

\* the request of the third round is in flight, after two sleeps
C23_Witness ==
    /\ lastOp.op = "sleep" /\ pc = "http"
    /\ attempt = 3 /\ sleeps = <<2, 3>> /\ Len(called) = 3
    /\ inFlight = 1
    /\ operation = "requestStream"

(***************************************************************************)
(* Claims about the base URL of a call, checked under SpecRoute.           *)
(***************************************************************************)
IsRoutedCall == lastOp.op = "call" /\ called # <<>>

OverrideGiven(route) ==
    route # NoRoute /\ route.cloudCodeUrlOverride \notin {"undefined", ""}

IsSet(route, flag) == route # NoRoute /\ route[flag] = "true"

InternalPreview(route) ==
    IsSet(route, "isGoogleInternal")
        /\ (IsSet(route, "isInsiders") \/ IsSet(route, "isDev"))

\* C29 as stated: every HTTP call goes to the production endpoint, the
\* sandbox endpoint or the caller's override.
C29_ProdSandboxOrOverride ==
    \A k \in DOMAIN called :
        called[k] \in {CLOUDCODE_URL_PROD, CLOUDCODE_URL_AUTOPUSH_SANDBOX,
                       OverrideUrl}

\* C29, amended: every HTTP call goes to the production, the sandbox or the
\* daily endpoint or to the caller's override: to the override when one is
\* given, else to production for isGcpTos, else to the sandbox for an internal
\* insiders or dev route, else to the daily endpoint.
C29_RouteSelectsBaseUrl ==
    /\ \A k \in DOMAIN called :
           called[k] \in {CLOUDCODE_URL_PROD, CLOUDCODE_URL_AUTOPUSH_SANDBOX,
                          CLOUDCODE_URL_DAILY, OverrideUrl}
    /\ IsRoutedCall =>
           LET route == lastOp.route
               url == called[1]
           IN  /\ called = <<url>>
               /\ OverrideGiven(route) => url = route.cloudCodeUrlOverride
               /\ (~OverrideGiven(route) /\ IsSet(route, "isGcpTos"))
                      => url = CLOUDCODE_URL_PROD
               /\ (~OverrideGiven(route) /\ ~IsSet(route, "isGcpTos")
                       /\ InternalPreview(route))
                      => url = CLOUDCODE_URL_AUTOPUSH_SANDBOX
               /\ (~OverrideGiven(route) /\ ~IsSet(route, "isGcpTos")
                       /\ ~InternalPreview(route))
                      => url = CLOUDCODE_URL_DAILY

\* an internal route that is neither insiders nor dev goes to the daily
\* endpoint
C29_Witness ==
    /\ IsRoutedCall
    /\ IsSet(lastOp.route, "isGoogleInternal")
    /\ lastOp.route.isInsiders = "false" /\ lastOp.route.isDev = "undefined"
    /\ ~OverrideGiven(lastOp.route) /\ ~IsSet(lastOp.route, "isGcpTos")
    /\ called = <<CLOUDCODE_URL_DAILY>>

(***************************************************************************)
(* Claims about the stream reader, checked under SpecStream.               *)
(***************************************************************************)
IsStreamDone ==
    /\ IsHttpDone /\ operation = "requestStream"
    /\ lastOp.outcome.fetch = "response"
    /\ lastOp.outcome.text.kind = "stream"

IsDataEvent(line) == line.field = "data" /\ line.payload # DonePayload

IsJsonEvent(line) == line.field = "data" /\ line.payload \in JsonPayloads

\* the data events and the valid (JSON) data events among the lines read
DataEvents(outcome) == SelectSeq(LinesRead(outcome), IsDataEvent)
JsonEvents(outcome) == SelectSeq(LinesRead(outcome), IsJsonEvent)

Last(seq) == seq[Len(seq)]

\* the parsed payload of the last valid data event, undefined without one
LastJsonData(outcome) ==
    IF JsonEvents(outcome) = <<>> THEN Undefined
    ELSE JSON_parse(Last(JsonEvents(outcome)).payload)[1]

IsRetryableRequestError(result) ==
    /\ result.thrown
    /\ result.error.class = "CloudCodeRequestError"
    /\ result.error.retryable

StreamEnded == IsStreamDone /\ lastOp.outcome.read = "complete"

StreamAborted == IsStreamDone /\ lastOp.outcome.read \in {"abort", "abort_late"}

\* C24 as stated: a stream that ends without a valid (JSON) data event fails
\* with a retryable RequestError, data lines of other payloads included.
C24_NoValidEventFails ==
    (StreamEnded /\ JsonEvents(lastOp.outcome) = <<>>) =>
        IsRetryableRequestError(lastOp.result)

\* C24, amended: a stream that ends without a data event (a data: line of a
\* payload other than [DONE]) fails with a retryable RequestError; one whose
\* data events all carry payloads that are not JSON returns, with undefined
\* data and the payloads as text.
C24_NoEventFails ==
    /\ (StreamEnded /\ DataEvents(lastOp.outcome) = <<>>) =>
           /\ IsRetryableRequestError(lastOp.result)
           /\ lastOp.result.error.message = "Cloud Code stream received no data"
    /\ (StreamEnded /\ DataEvents(lastOp.outcome) # <<>>
           /\ JsonEvents(lastOp.outcome) = <<>>) =>
           /\ ~lastOp.result.thrown
           /\ lastOp.result.data = Undefined
           /\ Len(lastOp.result.text) = Len(DataEvents(lastOp.outcome))
           /\ settled = lastOp.result

\* a stream of an event line, a [DONE] line and a blank line ends
C24_Witness ==
    /\ StreamEnded
    /\ lastOp.outcome.text.lines =
           <<Line("event", "message"), Line("data", DonePayload), BlankLine>>
    /\ IsRetryableRequestError(lastOp.result)
    /\ pc = "sleep"

\* C25 as stated: an abort after a data event was captured gives the payload
\* of the last captured event, with no retry; an abort before any was
\* captured gives a retryable RequestError.
C25_AbortGivesLastEvent ==
    /\ (StreamAborted /\ DataEvents(lastOp.outcome) # <<>>) =>
           /\ ~lastOp.result.thrown
           /\ JSON_parse(Last(DataEvents(lastOp.outcome)).payload)
                  = <<lastOp.result.data>>
           /\ settled = lastOp.result /\ pc = "done" /\ NothingFurther
    /\ (StreamAborted /\ DataEvents(lastOp.outcome) = <<>>) =>
           IsRetryableRequestError(lastOp.result)

\* C25, amended: an abort after a data event was captured gives the parsed
\* payload of the last captured event that carries JSON (undefined data when
\* none does), with no retry; an abort before any was captured gives a
\* retryable RequestError.
C25_AbortGivesLastJson ==
    /\ (StreamAborted /\ DataEvents(lastOp.outcome) # <<>>) =>
           /\ ~lastOp.result.thrown
           /\ lastOp.result.data = LastJsonData(lastOp.outcome)
           /\ settled = lastOp.result /\ pc = "done" /\ NothingFurther
    /\ (StreamAborted /\ DataEvents(lastOp.outcome) = <<>>) =>
           /\ IsRetryableRequestError(lastOp.result)
           /\ lastOp.result.error.message = "Cloud Code stream read error"

\* two valid events, then the abort: the call returns the second one
C25_Witness ==
    /\ StreamAborted
    /\ lastOp.outcome.text.lines =
           <<Line("data", "{\"n\":1}"), Line("data", "{\"n\":2}")>>
    /\ settled = lastOp.result /\ ~settled.thrown
    /\ settled.data = [n |-> 2]

IsSkipped(line) == ~IsDataEvent(line)

\* the outcome without the blank lines, the lines that do not start with
\* data: and the [DONE] lines
WithoutSkipped(outcome) ==
    [outcome EXCEPT !.text.lines = SelectSeq(outcome.text.lines, IsDataEvent)]

StreamReturned == IsStreamDone /\ ~lastOp.result.thrown

\* the skipped lines change nothing and are no events
SkippedLinesIgnored ==
    IsStreamDone =>
        /\ lastOp.result = requestStreamOnce(WithoutSkipped(lastOp.outcome))
        /\ StreamReturned =>
               Len(lastOp.result.text) = Len(DataEvents(lastOp.outcome))

\* C26 as stated: the data of a successful streaming call is the parsed
\* payload of the last data: line that carries valid JSON; blank lines, other
\* lines and [DONE] change nothing and are no events.
C26_DataIsLastJson ==
    /\ StreamReturned =>
           /\ JsonEvents(lastOp.outcome) # <<>>
           /\ lastOp.result.data = LastJsonData(lastOp.outcome)
    /\ SkippedLinesIgnored

\* C26, amended: the data of a successful streaming call is the parsed
\* payload of the last data: line that carries valid JSON, or undefined when
\* no data: line does; blank lines, other lines and [DONE] change nothing and
\* are no events.
C26_DataIsLastJsonIfAny ==
    /\ StreamReturned => lastOp.result.data = LastJsonData(lastOp.outcome)
    /\ SkippedLinesIgnored

\* a valid event, a [DONE] line and a second valid event
C26_Witness ==
    /\ StreamReturned /\ lastOp.outcome.read = "complete"
    /\ lastOp.outcome.text.lines =
           <<Line("data", "{\"n\":2}"), Line("data", DonePayload),
             Line("data", "{\"n\":1}")>>
    /\ settled.data = [n |-> 1]
    /\ Len(settled.text) = 2

(***************************************************************************)
(* Claims about the backoff delay, checked under SpecBackoff.              *)
(***************************************************************************)
IsBackoff == lastOp.op = "backoff"

\* C22 as stated: every delay is at most the cap, and the delay of round
\* attempt + 1 is at least base * 2^(attempt-1), less the jitter tolerance.
C22_AtLeastExponential ==
    IsBackoff =>
        /\ lastOp.delay <= BACKOFF_MAX_MS
        /\ lastOp.delay >=
               BACKOFF_BASE_MS * 2 ^ (lastOp.attempt - 2) - MaxJitterMs

\* C22, amended: every delay is at most the cap, and the delay of round
\* attempt + 1 is at least the smaller of base * 2^(attempt-1) and the cap.
C22_BackoffBounds ==
    IsBackoff =>
        /\ lastOp.delay <= BACKOFF_MAX_MS
        /\ lastOp.delay >=
               Min(BACKOFF_BASE_MS * 2 ^ (lastOp.attempt - 2), BACKOFF_MAX_MS)

\* the delay of round 6 is the cap, below base * 2^4
C22_Witness ==
    /\ IsBackoff
    /\ lastOp.attempt = 6 /\ lastOp.jitter = 37
    /\ lastOp.delay = BACKOFF_MAX_MS

(***************************************************************************)
(* Claims about the onboarding tier, checked under SpecTier.               *)
(***************************************************************************)
IsPick == lastOp.op = "pick"

HasId(tier) == tier.id \notin {"undefined", ""}

IsDefault(tier) == tier.isDefault = "true"

\* no tier before place i in the list satisfies the test
FirstDefaultWithId(tiers, i) ==
    /\ IsDefault(tiers[i]) /\ HasId(tiers[i])
    /\ \A j \in 1..(i - 1) : ~(IsDefault(tiers[j]) /\ HasId(tiers[j]))

FirstWithId(tiers, i) ==
    HasId(tiers[i]) /\ \A j \in 1..(i - 1) : ~HasId(tiers[j])

\* C27: the tier picked is the id of the (first) tier flagged default that
\* has one; else the id of the first tier that has an id; else LEGACY when
\* the list is not empty; else none.
C27_TierSelection ==
    IsPick =>
        LET tiers == lastOp.allowedTiers
            tier == lastOp.tier
            someDefault == \E i \in DOMAIN tiers : IsDefault(tiers[i]) /\ HasId(tiers[i])
            someId == \E i \in DOMAIN tiers : HasId(tiers[i])
        IN  /\ \A i \in DOMAIN tiers : FirstDefaultWithId(tiers, i) => tier = tiers[i].id
            /\ ~someDefault =>
                   \A i \in DOMAIN tiers : FirstWithId(tiers, i) => tier = tiers[i].id
            /\ (~someId /\ tiers # <<>>) => tier = "LEGACY"
            /\ tiers = <<>> => tier = "undefined"

\* [{id: t1}, {id: t2, isDefault: true}] gives t2
C27_Witness ==
    /\ IsPick
    /\ lastOp.allowedTiers = <<[id |-> "t1", isDefault |-> "undefined"],
                               [id |-> "t2", isDefault |-> "true"]>>
    /\ lastOp.tier = "t2"

(***************************************************************************)
(* Claims about resolveProjectId, checked under SpecOnboard.               *)
(***************************************************************************)
IsLoadDone == lastOp.op = "load"

IsOperationDone == lastOp.op = "operation"

\* loadCodeAssist gave a project id: a non-empty string, or an object with one
GaveProjectId(response) ==
    LET project == response.cloudaicompanionProject
    IN  \/ project.type = "string" /\ project.value # ""
        \/ project.type = "object" /\ project.id # "undefined"

\* a tier to onboard with: some allowed tier, or the paid or current tier
TierAvailable(response) ==
    \/ response.allowedTiers # <<>>
    \/ response.paidTierId # "undefined"
    \/ response.currentTierId # "undefined"

NotDone(response) == ~response.thrown /\ response.done # "true"

NoName(response) == response.name \in {"undefined", ""}

\* nothing was called or slept for in the step
NoFurtherPoll == resolveCalls = lastOp.calls /\ pollSleeps = lastOp.sleeps

\* C28: resolveProjectId calls onboardUser only when loadCodeAssist gave no
\* project id and a tier is available; it then polls the operation, one fixed
\* delay before each poll, as long as the responses are not done; a done
\* response ends the loop with the return, and a not-done response without an
\* operation name ends it with an error.
C28_OnboardAndPoll ==
    /\ "onboardUser" \in {resolveCalls[i] : i \in DOMAIN resolveCalls} =>
           /\ Len(resolveCalls) >= 2
           /\ resolveCalls[1] = "loadCodeAssist" /\ resolveCalls[2] = "onboardUser"
           /\ \A i \in 3..Len(resolveCalls) : resolveCalls[i] = "poll"
           /\ onboardTier # "undefined" /\ onboardTier # ""
    /\ (IsLoadDone /\ resolvePc = "onboard") =>
           /\ ~lastOp.response.thrown
           /\ ~GaveProjectId(lastOp.response)
           /\ TierAvailable(lastOp.response)
    /\ resolvePc \in {"onboard", "poll_sleep", "poll"} =>
           /\ pollSleeps = [i \in 1..Len(pollSleeps) |-> ONBOARD_POLL_DELAY_MS]
           /\ Len(resolveCalls) = 2 + Len(pollSleeps)
    /\ lastOp.op = "poll_sleep" =>
           /\ resolvePc = "poll"
           /\ resolveCalls = Append(lastOp.calls, "poll")
    /\ (IsOperationDone /\ NotDone(lastOp.response) /\ ~NoName(lastOp.response)) =>
           /\ resolvePc = "poll_sleep" /\ resolved = Pending
           /\ NoFurtherPoll
    /\ (IsOperationDone /\ ~lastOp.response.thrown /\ ~NotDone(lastOp.response)) =>
           /\ resolvePc = "done" /\ ~resolved.thrown
           /\ resolved.tierId = onboardTier
           /\ NoFurtherPoll
    /\ (IsOperationDone /\ NotDone(lastOp.response) /\ NoName(lastOp.response)) =>
           /\ resolvePc = "done" /\ resolved.thrown
           /\ resolved.error.class = "CloudCodeRequestError"
           /\ NoFurtherPoll

\* the second poll is answered "not done" without a name: the call throws
C28_Witness ==
    /\ IsOperationDone /\ lastOp.at = "poll"
    /\ NotDone(lastOp.response) /\ lastOp.response.name = "undefined"
    /\ pollSleeps = <<ONBOARD_POLL_DELAY_MS, ONBOARD_POLL_DELAY_MS>>
    /\ resolved.thrown /\ resolvePc = "done"
    /\ onboardTier = "LEGACY"

(***************************************************************************)
(* Claims about the varint decoder, checked under SpecVarint.              *)
(***************************************************************************)
IsVarint == lastOp.op = "varint"

\* the buffer holds the encoding of num at the offset read
EncodedAt(data, offset, num) ==
    LET bytes == encodeVarint(num)
    IN  /\ Len(data) >= offset + Len(bytes)
        /\ SubSeq(data, offset + 1, offset + Len(bytes)) = bytes

\* C30: for a number n of 0 .. 2^35 encoded as a base-128 little-endian
\* varint at an offset of a buffer, readVarint at that offset gives n and the
\* offset of the byte just after the encoding.
C30_VarintRoundTrip ==
    IsVarint =>
        \A num \in VarintValues :
            EncodedAt(lastOp.data, lastOp.offset, num) =>
                /\ ~lastOp.result.thrown
                /\ lastOp.result.value = num
                /\ lastOp.result.offset = lastOp.offset + Len(encodeVarint(num))

\* 2^35, six bytes at offset 2, with a byte after them
C30_Witness ==
    /\ IsVarint
    /\ lastOp.offset = 2
    /\ lastOp.data = <<255, 255, 128, 128, 128, 128, 128, 1, 133>>
    /\ lastOp.result.value = Num(128, 0)
    /\ lastOp.result.offset = 8

\* no byte from the offset to the end of the buffer has its high bit clear
EndsBeforeLastByte(data, offset) ==
    \A i \in (offset + 1)..Len(data) : data[i] >= 128

\* C31: when the buffer ends before a byte with the high bit clear is found
\* from the offset (an offset at or past the end included), readVarint throws
\* its varint error and gives no value.
C31_IncompleteVarintThrows ==
    (IsVarint /\ EndsBeforeLastByte(lastOp.data, lastOp.offset)) =>
        /\ lastOp.result.thrown
        /\ lastOp.result.message = "Incomplete varint"
        /\ "value" \notin DOMAIN lastOp.result

\* three continuation bytes of 2^35 read from offset 1, then the buffer ends
C31_Witness ==
    /\ IsVarint
    /\ lastOp.offset = 1 /\ lastOp.data = <<255, 128, 128, 128, 128, 128>>
    /\ lastOp.result.thrown

(***************************************************************************)
(* Claims about the field scan, checked under SpecField.                   *)
(***************************************************************************)
IsFind == lastOp.op = "find"

\* the field is a length-delimited field of the number looked for
Matches(field, targetField) == field.fieldNum = targetField /\ field.wireType = 2

\* the content of a length-delimited field: its value after the length
ContentOf(field) ==
    IF field.value[1] >= 128 THEN SubSeq(field.value, 3, Len(field.value))
    ELSE SubSeq(field.value, 2, Len(field.value))

\* the number of bytes the first i fields take
EndOf(fields, i) == Len(Concat(SubSeq(fields, 1, i)))

\* every field has one of the wire types 0, 1, 2, 5
WellFormed(fields) == \A i \in DOMAIN fields : fields[i].wireType \in {0, 1, 2, 5}

\* the first matching field is at place i
FirstMatch(fields, targetField, i) ==
    /\ Matches(fields[i], targetField)
    /\ \A j \in 1..(i - 1) : ~Matches(fields[j], targetField)

\* C32: findField returns the bytes of the first top-level length-delimited
\* field of the number looked for, and returns absent, without raising, when
\* no field matches or when the buffer ends in the middle of the scan: in a
\* tag, in a length prefix or in a field value.
C32_FirstFieldOrAbsent ==
    (IsFind /\ WellFormed(lastOp.fields)) =>
        LET fields == lastOp.fields
            target == lastOp.targetField
            whole == \E i \in DOMAIN fields :
                        FirstMatch(fields, target, i) /\ lastOp.cut >= EndOf(fields, i)
        IN  /\ ~lastOp.result.thrown
            /\ \A i \in DOMAIN fields :
                   (FirstMatch(fields, target, i) /\ lastOp.cut >= EndOf(fields, i)) =>
                       /\ lastOp.result.found
                       /\ lastOp.result.bytes = ContentOf(fields[i])
            /\ ~whole => ~lastOp.result.found

(***************************************************************************)
(* The credential store.                                                   *)
(***************************************************************************)
StoreOps == {"saveCredential", "setActiveAccount", "removeAccount",
             "markAccountInvalid", "clearAccountInvalid", "getActiveAccount"}

IsStoreOp == lastOp.op \in StoreOps

ActiveIsAbsentOrExists ==
    \/ getActiveAccount(storage) = NoAccount
    \/ hasAccount(storage, getActiveAccount(storage))

\* C33: after any sequence of saveCredential, setActiveAccount and account
\* removals the active account is absent or is an account of the store;
\* removing the active account leaves getActiveAccount() absent, and it stays
\* absent until setActiveAccount makes an account active again.
C33_ActivePointerNeverDangles ==
    /\ ActiveIsAbsentOrExists
    /\ (lastOp.op = "removeAccount" /\ getActiveAccount(lastOp.before) = lastOp.email) =>
           getActiveAccount(storage) = NoAccount
    /\ (IsStoreOp /\ getActiveAccount(lastOp.before) = NoAccount
            /\ getActiveAccount(storage) # NoAccount) =>
           (lastOp.op = "setActiveAccount" /\ ~lastOp.thrown)
    /\ (lastOp.op = "getActiveAccount") => lastOp.result = getActiveAccount(storage)

\* the active account is removed while another account stays in the store
C33_Witness ==
    /\ lastOp.op = "removeAccount"
    /\ getActiveAccount(lastOp.before) = lastOp.email
    /\ DOMAIN storage.accounts # {}
    /\ getActiveAccount(storage) = NoAccount

(***************************************************************************)
(* markResetTriggered and shouldTriggerOnReset as writers.                 *)
(***************************************************************************)
IsMark == lastOp.op = "mark"

OtherModels == Models \ {lastOp.model}

\* what markResetTriggered leaves in the maps and in the state slots
MarkStored ==
    IsMark =>
        /\ lastOp.model \in DOMAIN lastResetTriggerTimestamps
        /\ lastResetTriggerTimestamps[lastOp.model] = lastOp.resetAt
        /\ lastOp.model \in DOMAIN lastResetTriggerAt
        /\ lastResetTriggerAt[lastOp.model] = now
        /\ storedResetTimestamps = lastResetTriggerTimestamps
        /\ storedResetAt = lastResetTriggerAt
        /\ \A m \in OtherModels :
               /\ m \in DOMAIN lastResetTriggerTimestamps <=> m \in DOMAIN lastOp.before[1]
               /\ m \in DOMAIN lastOp.before[1] =>
                      lastResetTriggerTimestamps[m] = lastOp.before[1][m]
               /\ m \in DOMAIN lastResetTriggerAt <=> m \in DOMAIN lastOp.before[2]
               /\ m \in DOMAIN lastOp.before[2] =>
                      lastResetTriggerAt[m] = lastOp.before[2][m]

\* C34 (as stated): markResetTriggered stores resetAt as the model's watermark
\* and the wall clock as its last trigger time, writes both through, and leaves
\* the other models' watermarks alone; every later shouldTriggerOnReset call
\* for the model with that resetAt returns false.
C34_MarkedResetAtNeverAgain ==
    /\ MarkStored
    /\ (IsShould /\ lastOp.wokenBefore) => ~lastOp.result

\* C34 (amended): as above, the later calls being those made while that
\* resetAt is still the model's watermark, that is before markResetTriggered
\* is called for the model with another resetAt.
C34_MarkedResetAtWhileWatermark ==
    /\ MarkStored
    /\ (IsShould /\ lastOp.marked /\ lastOp.resetAt = lastOp.markedResetAt) =>
           (~lastOp.result /\ lastOp.watermark = lastOp.resetAt)

\* a call that only the watermark stops, long after the mark and over a
\* restart or not: full, rising edge, cooldown over; another model is marked
\* with another resetAt
C34_Witness ==
    /\ IsShould /\ lastOp.marked /\ lastOp.resetAt = lastOp.markedResetAt
    /\ ~lastOp.result
    /\ lastOp.remaining >= lastOp.limit
    /\ lastOp.hadRemaining /\ lastOp.prevRemaining < lastOp.limit
    /\ lastOp.sinceMark >= RESET_TRIGGER_COOLDOWN_MS
    /\ \E m \in OtherModels :
           /\ m \in DOMAIN lastResetTriggerTimestamps
           /\ lastResetTriggerTimestamps[m] # lastOp.resetAt

TriggerMaps == <<lastResetTriggerTimestamps, lastResetTriggerAt,
                 storedResetTimestamps, storedResetAt>>

\* C35: no shouldTriggerOnReset call, whatever it returns, changes the resetAt
\* watermarks, the last trigger times (in memory or stored) or the trigger
\* history; only markResetTriggered changes the watermarks and the times.
C35_ShouldOnlyReads ==
    [][/\ lastOp'.op = "should" =>
              UNCHANGED <<TriggerMaps, recentTriggers, storedHistory>>
       /\ TriggerMaps' # TriggerMaps => lastOp'.op = "mark"]_vars

\* a wake-up of a marked model: the answer is true and the watermark is still
\* the one of the mark before
C35_Witness ==
    /\ IsWake /\ lastOp.marked
    /\ lastOp.model \in DOMAIN lastResetTriggerTimestamps
    /\ lastResetTriggerTimestamps[lastOp.model] = lastOp.markedResetAt
    /\ lastOp.markedResetAt # lastOp.resetAt
    /\ lastResetTriggerAt[lastOp.model] = now - lastOp.sinceMark

(***************************************************************************)
(* The project id of trigger() and the account of its access token.        *)
(***************************************************************************)
\* a cached project id is the project of the account it is stored on
CachedOnOwnAccount ==
    \A email \in DOMAIN storage.accounts :
        storage.accounts[email].projectId \in {"undefined", ProjectOf(email)}

\* C36: the project id trigger() caches is stored on the credential of the
\* account whose access token resolved it, and the project id of the fan-out
\* belongs to that account, also when the active account is switched while
\* trigger() is suspended at an await.
C36_ProjectIdOfTokenAccount ==
    /\ CachedOnOwnAccount
    /\ lastOp.op = "cacheProjectId" => lastOp.email = lastOp.accessToken
    /\ lastOp.op = "fanOut" =>
           lastOp.projectId \in {ProjectOf(lastOp.accessToken), RandomProject}

(***************************************************************************)
(* The local credential importer.                                          *)
(***************************************************************************)
IsCommitStart == lastOp.op = "commitStart"

TooOld(pending) == now - pending.createdAt > PENDING_CREDENTIAL_TTL_MS

\* C37: the credential of a preview is taken by at most one commit, and only
\* within PENDING_CREDENTIAL_TTL_MS of the preview; every commit clears the
\* pending credential at its entry, so a credential once taken is never
\* pending again, whether the commit succeeds or fails; a commit that finds no
\* pending credential or one older than the TTL rebuilds it from the local
\* state.
C37_PendingTakenOnceInTime ==
    /\ \A i, j \in DOMAIN used : i # j => used[i] # used[j]
    /\ pendingLocalCredential # Null =>
           \A i \in DOMAIN used : used[i] # pendingLocalCredential.preview
    /\ IsCommitStart =>
           /\ pendingLocalCredential = Null
           /\ lastOp.took =>
                  /\ lastOp.pending # Null
                  /\ ~TooOld(lastOp.pending)
                  /\ commits[lastOp.id].credential = lastOp.pending.credential
                  /\ commits[lastOp.id].pc = "has_account"
           /\ (lastOp.pending = Null \/ TooOld(lastOp.pending)) =>
                  /\ ~lastOp.took
                  /\ commits[lastOp.id].pc = "read_local"
                  /\ commits[lastOp.id].credential = Null

\* a commit finds a credential older than the TTL and leaves it, while another
\* commit that took an earlier preview's credential is still running
C37_Witness ==
    /\ IsCommitStart /\ ~lastOp.took
    /\ lastOp.pending # Null /\ TooOld(lastOp.pending)
    /\ Len(used) = 1
    /\ \E id \in CommitIds \ {lastOp.id} :
           /\ commits[id].pc \notin {"idle", "read_local"}
           /\ commits[id].source = "pending"

Stored(store, email) == store.accounts[email]

\* C38: a commit without overwrite for an email that has a stored credential
\* fails with 'Account already exists' and leaves the store as it was; a
\* commit that succeeds leaves the imported credential stored, its invalid
\* flag cleared and its email the active account.
C38_CommitAllOrNothing ==
    /\ \A id \in CommitIds :
           (commits[id].pc \in {"save", "clear_invalid", "set_active"}
                /\ ~commits[id].overwrite) =>
               ~hasAccount(commits[id].storeAtStart, commits[id].credential.email)
    /\ (lastOp.op = "commitFail" /\ lastOp.message = "Account already exists") =>
           /\ storage = lastOp.call.storeAtStart
           /\ hasAccount(storage, lastOp.call.credential.email)
           /\ ~lastOp.call.overwrite
    /\ lastOp.op = "commit" =>
           /\ hasAccount(storage, lastOp.email)
           /\ Stored(storage, lastOp.email) = lastOp.call.credential
           /\ lastOp.email \notin storage.invalid
           /\ getActiveAccount(storage) = lastOp.email
           /\ lastOp.existed = hasAccount(lastOp.call.storeAtStart, lastOp.email)
           /\ lastOp.existed => lastOp.call.overwrite

\* a refused commit: the account is stored with another refresh token, is
\* flagged invalid and is not the active one
C38_Witness ==
    /\ lastOp.op = "commitFail" /\ lastOp.message = "Account already exists"
    /\ Stored(storage, lastOp.call.credential.email).refreshToken
           # lastOp.call.credential.refreshToken
    /\ lastOp.call.credential.email \in storage.invalid
    /\ getActiveAccount(storage) \notin {lastOp.call.credential.email, NoAccount}

(***************************************************************************)
(* bootSystems.                                                            *)
(***************************************************************************)
IsBoot(path) == lastOp.op = "boot" /\ lastOp.path = path

RetryCounterKept ==
    /\ autoRetryCount \in 0..MAX_AUTO_RETRY
    /\ IsBoot("retry") =>
           /\ lastOp.countBefore < MAX_AUTO_RETRY
           /\ autoRetryCount = lastOp.countBefore + 1
           /\ timers > 0
    /\ IsBoot("gaveUp") => (lastOp.countBefore = MAX_AUTO_RETRY /\ autoRetryCount = 0)
    /\ IsBoot("started") => (autoRetryCount = 0 /\ systemOnline)

\* C39 (as stated): the retry counter stays within 0 .. MAX_AUTO_RETRY; a
\* failed scan schedules a retry and counts it while the counter is below
\* MAX_AUTO_RETRY, and at MAX_AUTO_RETRY schedules none, resets the counter to
\* 0 and reports the offline or the error state; a successful boot resets the
\* counter to 0.
C39_GivesUpAndReports ==
    /\ RetryCounterKept
    /\ IsBoot("gaveUp") =>
           statusBar = (IF lastOp.outcome = "none" THEN "offline" ELSE "error")

\* C39 (amended): as above, the offline state being reported unless the quota
\* source is 'authorized' when the last scan fails: then nothing is reported
\* and the status bar stays as it was.
C39_GivesUpAndReportsIfLocal ==
    /\ RetryCounterKept
    /\ IsBoot("gaveUp") =>
           statusBar = (IF lastOp.outcome = "error" THEN "error"
                        ELSE IF lastOp.quotaSource = "authorized"
                             THEN lastOp.statusBefore
                        ELSE "offline")

\* the scan after the third retry finds nothing: the offline state is reported
C39_Witness ==
    /\ IsBoot("gaveUp") /\ lastOp.outcome = "none"
    /\ lastOp.countBefore = MAX_AUTO_RETRY
    /\ statusBar = "offline"
    /\ autoRetryCount = 0 /\ timers = 0 /\ scans = 0 /\ ~systemOnline

\* C40: under every interleaving of bootSystems runs the reactor is started
\* at most once per change from offline to online: a run starts it only when
\* the system is offline, so two overlapping runs never both start it.
C40_StartedOncePerTransition == IsBoot("started") => ~lastOp.wasOnline

=============================================================================
